---- MODULE Spec2Model ----
(***************************************************************************)
(* Model of the retrieval-augmented networking helper of                   *)
(* jappich/warmconnector.  The repository holds five independent programs: *)
(*   server/services/simpleHaystackRAG.py     class SimpleNetworkingRAG    *)
(*   server/services/haystack_rag_pipeline.py class NetworkingRAGPipeline  *)
(*   simple_rag.py                            simple_rag_query             *)
(*   pipeline.py                              class WarmConnectorRAG       *)
(*   haystack_api.py                          the HTTP service on top of   *)
(*                                            WarmConnectorRAG             *)
(* Each runs in a process of its own; `program` says which one a behaviour *)
(* is about.  simpleHaystackRAG.py is taken twice: as the class used by a  *)
(* caller that keeps the object ("simpleHaystackRAG"), and as the stdin    *)
(* worker main, one process per invocation ("simpleHaystackRAG_main");     *)
(* there `documents` is the store the last invocation ended with.          *)
(*                                                                         *)
(* Representation.  A Python str is a sequence of one-character strings,   *)
(* so that lower(), split() and the substring test `a in b` are computed    *)
(* character by character.  A Python value whose type matters is a record  *)
(* [type, val]: Str(s) for a str, None for None.  A float confidence is    *)
(* kept in hundredths (0.85 is 85).  A raised exception is a record        *)
(* [raised |-> TRUE, error |-> message]; a normal return is                *)
(* [raised |-> FALSE, value |-> v].                                        *)
(*                                                                         *)
(* The variable documents is the field self.documents of the              *)
(* SimpleNetworkingRAG object.  Its field self.knowledge_base is kept as   *)
(* the table that __init__ builds (knowledge_base) and the entries         *)
(* assigned to it since (knowledge_writes, none after construction).       *)
(*                                                                         *)
(* History variables, which no program holds: retrieved_idx (the store     *)
(* indices of the documents the last query retrieved), repeat (the last    *)
(* query repeated the call before it) and well_formed_total (the sum of    *)
(* the lengths of the batches added so far, while every document added was *)
(* well-formed; -1 afterwards).                                            *)
(*                                                                         *)
(* Spec takes every call as one step.  SpecInterleaved runs one query      *)
(* thread and one add_documents thread on the same SimpleNetworkingRAG,    *)
(* one list operation at a time; scan and writer are the positions and     *)
(* locals of the two threads.                                              *)
(***************************************************************************)
EXTENDS Integers, Sequences, FiniteSets, TLC

VARIABLES program, documents, knowledge_writes, call, result, retrieved_idx, repeat,
          well_formed_total, scan, writer

vars ==
    <<program, documents, knowledge_writes, call, result, retrieved_idx, repeat,
      well_formed_total, scan, writer>>

(***************************************************************************)
(* Python str primitives                                                   *)
(***************************************************************************)
UpperLetters ==
    << "A", "B", "C", "D", "E", "F", "G", "H", "I", "J", "K", "L", "M",
       "N", "O", "P", "Q", "R", "S", "T", "U", "V", "W", "X", "Y", "Z" >>

LowerLetters ==
    << "a", "b", "c", "d", "e", "f", "g", "h", "i", "j", "k", "l", "m",
       "n", "o", "p", "q", "r", "s", "t", "u", "v", "w", "x", "y", "z" >>

\* str.lower() on one character (ASCII).
LowerChar(c) ==
    IF \E i \in 1..26 : UpperLetters[i] = c
    THEN LowerLetters[CHOOSE i \in 1..26 : UpperLetters[i] = c]
    ELSE c

\* str.lower()
Lower(s) ==
    [i \in 1..Len(s) |-> LowerChar(s[i])]

\* The characters str.split() treats as separators.
Whitespace ==
    {" ", "\t", "\n", "\r", "\f"}

\* str.split(): the maximal runs of non-whitespace characters, in order.
\* cur is the run being read, acc the runs already closed.
RECURSIVE SplitFrom(_, _, _, _)
SplitFrom(s, i, cur, acc) ==
    IF i > Len(s)
    THEN IF cur = <<>> THEN acc ELSE Append(acc, cur)
    ELSE IF s[i] \in Whitespace
         THEN SplitFrom(s, i + 1, <<>>, IF cur = <<>> THEN acc ELSE Append(acc, cur))
         ELSE SplitFrom(s, i + 1, Append(cur, s[i]), acc)

Split(s) ==
    SplitFrom(s, 1, <<>>, <<>>)

\* The substring test `sub in s`.
Contains(sub, s) ==
    \E i \in 0..(Len(s) - Len(sub)) : SubSeq(s, i + 1, i + Len(sub)) = sub

\* s[:n]
Prefix(s, n) ==
    SubSeq(s, 1, IF Len(s) < n THEN Len(s) ELSE n)

\* Python values
Str(s) ==
    [type |-> "str", val |-> s]

None ==
    [type |-> "NoneType", val |-> <<>>]

IsStr(v) ==
    v.type = "str"

Return(v) ==
    [raised |-> FALSE, value |-> v]

Raise(msg) ==
    [raised |-> TRUE, error |-> msg]

\* A dict is [type |-> "dict", val |-> record of its keys]; the empty meta mapping
\* is the empty set of key/value pairs.
EmptyMeta ==
    {}

IsDict(v) ==
    v.type = "dict"

(***************************************************************************)
(* Text constants of simpleHaystackRAG.py                                  *)
(***************************************************************************)
\* "Focus on building authentic, mutually beneficial relationships rather than transactional connections."
NS1 ==
    << "F", "o", "c", "u", "s", " ", "o", "n", " ", "b", "u", "i", "l", "d", "i", "n", "g", " ",
       "a", "u", "t", "h", "e", "n", "t", "i", "c", ",", " ", "m", "u", "t", "u", "a", "l", "l",
       "y", " ", "b", "e", "n", "e", "f", "i", "c", "i", "a", "l", " ", "r", "e", "l", "a", "t",
       "i", "o", "n", "s", "h", "i", "p", "s", " ", "r", "a", "t", "h", "e", "r", " ", "t", "h",
       "a", "n", " ", "t", "r", "a", "n", "s", "a", "c", "t", "i", "o", "n", "a", "l", " ", "c",
       "o", "n", "n", "e", "c", "t", "i", "o", "n", "s", "." >>

\* "Leverage warm introductions through mutual connections for higher success rates."
NS2 ==
    << "L", "e", "v", "e", "r", "a", "g", "e", " ", "w", "a", "r", "m", " ", "i", "n", "t", "r",
       "o", "d", "u", "c", "t", "i", "o", "n", "s", " ", "t", "h", "r", "o", "u", "g", "h", " ",
       "m", "u", "t", "u", "a", "l", " ", "c", "o", "n", "n", "e", "c", "t", "i", "o", "n", "s",
       " ", "f", "o", "r", " ", "h", "i", "g", "h", "e", "r", " ", "s", "u", "c", "c", "e", "s",
       "s", " ", "r", "a", "t", "e", "s", "." >>

\* "Participate actively in industry events and professional communities."
NS3 ==
    << "P", "a", "r", "t", "i", "c", "i", "p", "a", "t", "e", " ", "a", "c", "t", "i", "v", "e",
       "l", "y", " ", "i", "n", " ", "i", "n", "d", "u", "s", "t", "r", "y", " ", "e", "v", "e",
       "n", "t", "s", " ", "a", "n", "d", " ", "p", "r", "o", "f", "e", "s", "s", "i", "o", "n",
       "a", "l", " ", "c", "o", "m", "m", "u", "n", "i", "t", "i", "e", "s", "." >>

\* "Share valuable insights and expertise to establish thought leadership."
NS4 ==
    << "S", "h", "a", "r", "e", " ", "v", "a", "l", "u", "a", "b", "l", "e", " ", "i", "n", "s",
       "i", "g", "h", "t", "s", " ", "a", "n", "d", " ", "e", "x", "p", "e", "r", "t", "i", "s",
       "e", " ", "t", "o", " ", "e", "s", "t", "a", "b", "l", "i", "s", "h", " ", "t", "h", "o",
       "u", "g", "h", "t", " ", "l", "e", "a", "d", "e", "r", "s", "h", "i", "p", "." >>

\* "Follow up consistently but respectfully with new connections."
NS5 ==
    << "F", "o", "l", "l", "o", "w", " ", "u", "p", " ", "c", "o", "n", "s", "i", "s", "t", "e",
       "n", "t", "l", "y", " ", "b", "u", "t", " ", "r", "e", "s", "p", "e", "c", "t", "f", "u",
       "l", "l", "y", " ", "w", "i", "t", "h", " ", "n", "e", "w", " ", "c", "o", "n", "n", "e",
       "c", "t", "i", "o", "n", "s", "." >>

\* "Research common interests and mutual connections before reaching out."
IT1 ==
    << "R", "e", "s", "e", "a", "r", "c", "h", " ", "c", "o", "m", "m", "o", "n", " ", "i", "n",
       "t", "e", "r", "e", "s", "t", "s", " ", "a", "n", "d", " ", "m", "u", "t", "u", "a", "l",
       " ", "c", "o", "n", "n", "e", "c", "t", "i", "o", "n", "s", " ", "b", "e", "f", "o", "r",
       "e", " ", "r", "e", "a", "c", "h", "i", "n", "g", " ", "o", "u", "t", "." >>

\* "Craft personalized messages that clearly articulate mutual value."
IT2 ==
    << "C", "r", "a", "f", "t", " ", "p", "e", "r", "s", "o", "n", "a", "l", "i", "z", "e", "d",
       " ", "m", "e", "s", "s", "a", "g", "e", "s", " ", "t", "h", "a", "t", " ", "c", "l", "e",
       "a", "r", "l", "y", " ", "a", "r", "t", "i", "c", "u", "l", "a", "t", "e", " ", "m", "u",
       "t", "u", "a", "l", " ", "v", "a", "l", "u", "e", "." >>

\* "Keep initial contact messages concise and professional."
IT3 ==
    << "K", "e", "e", "p", " ", "i", "n", "i", "t", "i", "a", "l", " ", "c", "o", "n", "t", "a",
       "c", "t", " ", "m", "e", "s", "s", "a", "g", "e", "s", " ", "c", "o", "n", "c", "i", "s",
       "e", " ", "a", "n", "d", " ", "p", "r", "o", "f", "e", "s", "s", "i", "o", "n", "a", "l",
       "." >>

\* "Suggest specific ways you can provide value to the target contact."
IT4 ==
    << "S", "u", "g", "g", "e", "s", "t", " ", "s", "p", "e", "c", "i", "f", "i", "c", " ", "w",
       "a", "y", "s", " ", "y", "o", "u", " ", "c", "a", "n", " ", "p", "r", "o", "v", "i", "d",
       "e", " ", "v", "a", "l", "u", "e", " ", "t", "o", " ", "t", "h", "e", " ", "t", "a", "r",
       "g", "e", "t", " ", "c", "o", "n", "t", "a", "c", "t", "." >>

\* "Always thank the introducer and keep them informed of outcomes."
IT5 ==
    << "A", "l", "w", "a", "y", "s", " ", "t", "h", "a", "n", "k", " ", "t", "h", "e", " ", "i",
       "n", "t", "r", "o", "d", "u", "c", "e", "r", " ", "a", "n", "d", " ", "k", "e", "e", "p",
       " ", "t", "h", "e", "m", " ", "i", "n", "f", "o", "r", "m", "e", "d", " ", "o", "f", " ",
       "o", "u", "t", "c", "o", "m", "e", "s", "." >>

\* "Technology sector values innovation and rapid adaptation."
II1 ==
    << "T", "e", "c", "h", "n", "o", "l", "o", "g", "y", " ", "s", "e", "c", "t", "o", "r", " ",
       "v", "a", "l", "u", "e", "s", " ", "i", "n", "n", "o", "v", "a", "t", "i", "o", "n", " ",
       "a", "n", "d", " ", "r", "a", "p", "i", "d", " ", "a", "d", "a", "p", "t", "a", "t", "i",
       "o", "n", "." >>

\* "Finance industry prioritizes trust and regulatory compliance."
II2 ==
    << "F", "i", "n", "a", "n", "c", "e", " ", "i", "n", "d", "u", "s", "t", "r", "y", " ", "p",
       "r", "i", "o", "r", "i", "t", "i", "z", "e", "s", " ", "t", "r", "u", "s", "t", " ", "a",
       "n", "d", " ", "r", "e", "g", "u", "l", "a", "t", "o", "r", "y", " ", "c", "o", "m", "p",
       "l", "i", "a", "n", "c", "e", "." >>

\* "Healthcare focuses on patient outcomes and regulatory standards."
II3 ==
    << "H", "e", "a", "l", "t", "h", "c", "a", "r", "e", " ", "f", "o", "c", "u", "s", "e", "s",
       " ", "o", "n", " ", "p", "a", "t", "i", "e", "n", "t", " ", "o", "u", "t", "c", "o", "m",
       "e", "s", " ", "a", "n", "d", " ", "r", "e", "g", "u", "l", "a", "t", "o", "r", "y", " ",
       "s", "t", "a", "n", "d", "a", "r", "d", "s", "." >>

\* "Consulting emphasizes problem-solving and client relationships."
II4 ==
    << "C", "o", "n", "s", "u", "l", "t", "i", "n", "g", " ", "e", "m", "p", "h", "a", "s", "i",
       "z", "e", "s", " ", "p", "r", "o", "b", "l", "e", "m", "-", "s", "o", "l", "v", "i", "n",
       "g", " ", "a", "n", "d", " ", "c", "l", "i", "e", "n", "t", " ", "r", "e", "l", "a", "t",
       "i", "o", "n", "s", "h", "i", "p", "s", "." >>

\* "Strong connections show regular interaction patterns and mutual engagement."
CA1 ==
    << "S", "t", "r", "o", "n", "g", " ", "c", "o", "n", "n", "e", "c", "t", "i", "o", "n", "s",
       " ", "s", "h", "o", "w", " ", "r", "e", "g", "u", "l", "a", "r", " ", "i", "n", "t", "e",
       "r", "a", "c", "t", "i", "o", "n", " ", "p", "a", "t", "t", "e", "r", "n", "s", " ", "a",
       "n", "d", " ", "m", "u", "t", "u", "a", "l", " ", "e", "n", "g", "a", "g", "e", "m", "e",
       "n", "t", "." >>

\* "Weak ties can be valuable for accessing new information and opportunities."
CA2 ==
    << "W", "e", "a", "k", " ", "t", "i", "e", "s", " ", "c", "a", "n", " ", "b", "e", " ", "v",
       "a", "l", "u", "a", "b", "l", "e", " ", "f", "o", "r", " ", "a", "c", "c", "e", "s", "s",
       "i", "n", "g", " ", "n", "e", "w", " ", "i", "n", "f", "o", "r", "m", "a", "t", "i", "o",
       "n", " ", "a", "n", "d", " ", "o", "p", "p", "o", "r", "t", "u", "n", "i", "t", "i", "e",
       "s", "." >>

\* "Connection strength correlates with response rates and collaboration success."
CA3 ==
    << "C", "o", "n", "n", "e", "c", "t", "i", "o", "n", " ", "s", "t", "r", "e", "n", "g", "t",
       "h", " ", "c", "o", "r", "r", "e", "l", "a", "t", "e", "s", " ", "w", "i", "t", "h", " ",
       "r", "e", "s", "p", "o", "n", "s", "e", " ", "r", "a", "t", "e", "s", " ", "a", "n", "d",
       " ", "c", "o", "l", "l", "a", "b", "o", "r", "a", "t", "i", "o", "n", " ", "s", "u", "c",
       "c", "e", "s", "s", "." >>

\* "Geographic proximity often enhances professional relationship development."
CA4 ==
    << "G", "e", "o", "g", "r", "a", "p", "h", "i", "c", " ", "p", "r", "o", "x", "i", "m", "i",
       "t", "y", " ", "o", "f", "t", "e", "n", " ", "e", "n", "h", "a", "n", "c", "e", "s", " ",
       "p", "r", "o", "f", "e", "s", "s", "i", "o", "n", "a", "l", " ", "r", "e", "l", "a", "t",
       "i", "o", "n", "s", "h", "i", "p", " ", "d", "e", "v", "e", "l", "o", "p", "m", "e", "n",
       "t", "." >>

\* "networking_strategies"
K_networking_strategies ==
    << "n", "e", "t", "w", "o", "r", "k", "i", "n", "g", "_", "s", "t", "r", "a", "t", "e", "g",
       "i", "e", "s" >>

\* "introduction_techniques"
K_introduction_techniques ==
    << "i", "n", "t", "r", "o", "d", "u", "c", "t", "i", "o", "n", "_", "t", "e", "c", "h", "n",
       "i", "q", "u", "e", "s" >>

\* "industry_insights"
K_industry_insights ==
    << "i", "n", "d", "u", "s", "t", "r", "y", "_", "i", "n", "s", "i", "g", "h", "t", "s" >>

\* "connection_analysis"
K_connection_analysis ==
    << "c", "o", "n", "n", "e", "c", "t", "i", "o", "n", "_", "a", "n", "a", "l", "y", "s", "i",
       "s" >>

\* "networking_strategy"
T_networking_strategy ==
    << "n", "e", "t", "w", "o", "r", "k", "i", "n", "g", "_", "s", "t", "r", "a", "t", "e", "g",
       "y" >>

\* "introduction_advice"
T_introduction_advice ==
    << "i", "n", "t", "r", "o", "d", "u", "c", "t", "i", "o", "n", "_", "a", "d", "v", "i", "c",
       "e" >>

\* "bogus"
T_bogus ==
    << "b", "o", "g", "u", "s" >>

\* "company"
W_company ==
    << "c", "o", "m", "p", "a", "n", "y" >>

\* "technology"
W_technology ==
    << "t", "e", "c", "h", "n", "o", "l", "o", "g", "y" >>

\* "finance"
W_finance ==
    << "f", "i", "n", "a", "n", "c", "e" >>

\* "healthcare"
W_healthcare ==
    << "h", "e", "a", "l", "t", "h", "c", "a", "r", "e" >>

\* "consulting"
W_consulting ==
    << "c", "o", "n", "s", "u", "l", "t", "i", "n", "g" >>

\* "tech"
W_tech ==
    << "t", "e", "c", "h" >>

\* "fintech"
W_fintech ==
    << "f", "i", "n", "t", "e", "c", "h" >>

\* "general"
W_general ==
    << "g", "e", "n", "e", "r", "a", "l" >>

\* "When networking within a specific company, focus on identifying key decision-makers and building relationships through shared professional interests. "
AnsCompanyPre ==
    << "W", "h", "e", "n", " ", "n", "e", "t", "w", "o", "r", "k", "i", "n", "g", " ", "w", "i",
       "t", "h", "i", "n", " ", "a", " ", "s", "p", "e", "c", "i", "f", "i", "c", " ", "c", "o",
       "m", "p", "a", "n", "y", ",", " ", "f", "o", "c", "u", "s", " ", "o", "n", " ", "i", "d",
       "e", "n", "t", "i", "f", "y", "i", "n", "g", " ", "k", "e", "y", " ", "d", "e", "c", "i",
       "s", "i", "o", "n", "-", "m", "a", "k", "e", "r", "s", " ", "a", "n", "d", " ", "b", "u",
       "i", "l", "d", "i", "n", "g", " ", "r", "e", "l", "a", "t", "i", "o", "n", "s", "h", "i",
       "p", "s", " ", "t", "h", "r", "o", "u", "g", "h", " ", "s", "h", "a", "r", "e", "d", " ",
       "p", "r", "o", "f", "e", "s", "s", "i", "o", "n", "a", "l", " ", "i", "n", "t", "e", "r",
       "e", "s", "t", "s", ".", " " >>

\* " Research the company culture and recent developments to find relevant conversation starters."
AnsCompanyPost ==
    << " ", "R", "e", "s", "e", "a", "r", "c", "h", " ", "t", "h", "e", " ", "c", "o", "m", "p",
       "a", "n", "y", " ", "c", "u", "l", "t", "u", "r", "e", " ", "a", "n", "d", " ", "r", "e",
       "c", "e", "n", "t", " ", "d", "e", "v", "e", "l", "o", "p", "m", "e", "n", "t", "s", " ",
       "t", "o", " ", "f", "i", "n", "d", " ", "r", "e", "l", "e", "v", "a", "n", "t", " ", "c",
       "o", "n", "v", "e", "r", "s", "a", "t", "i", "o", "n", " ", "s", "t", "a", "r", "t", "e",
       "r", "s", "." >>

\* " Consider your specific goals and target audience when developing your approach."
AnsGenericPost ==
    << " ", "C", "o", "n", "s", "i", "d", "e", "r", " ", "y", "o", "u", "r", " ", "s", "p", "e",
       "c", "i", "f", "i", "c", " ", "g", "o", "a", "l", "s", " ", "a", "n", "d", " ", "t", "a",
       "r", "g", "e", "t", " ", "a", "u", "d", "i", "e", "n", "c", "e", " ", "w", "h", "e", "n",
       " ", "d", "e", "v", "e", "l", "o", "p", "i", "n", "g", " ", "y", "o", "u", "r", " ", "a",
       "p", "p", "r", "o", "a", "c", "h", "." >>

\* "For effective introductions, "
AnsIntroPre ==
    << "F", "o", "r", " ", "e", "f", "f", "e", "c", "t", "i", "v", "e", " ", "i", "n", "t", "r",
       "o", "d", "u", "c", "t", "i", "o", "n", "s", ",", " " >>

\* " Remember that successful introductions create value for all parties involved."
AnsIntroPost ==
    << " ", "R", "e", "m", "e", "m", "b", "e", "r", " ", "t", "h", "a", "t", " ", "s", "u", "c",
       "c", "e", "s", "s", "f", "u", "l", " ", "i", "n", "t", "r", "o", "d", "u", "c", "t", "i",
       "o", "n", "s", " ", "c", "r", "e", "a", "t", "e", " ", "v", "a", "l", "u", "e", " ", "f",
       "o", "r", " ", "a", "l", "l", " ", "p", "a", "r", "t", "i", "e", "s", " ", "i", "n", "v",
       "o", "l", "v", "e", "d", "." >>

\* "Based on industry analysis: "
AnsIndustryPre ==
    << "B", "a", "s", "e", "d", " ", "o", "n", " ", "i", "n", "d", "u", "s", "t", "r", "y", " ",
       "a", "n", "a", "l", "y", "s", "i", "s", ":", " " >>

\* " Consider how this applies to your specific networking objectives."
AnsIndustryPost ==
    << " ", "C", "o", "n", "s", "i", "d", "e", "r", " ", "h", "o", "w", " ", "t", "h", "i", "s",
       " ", "a", "p", "p", "l", "i", "e", "s", " ", "t", "o", " ", "y", "o", "u", "r", " ", "s",
       "p", "e", "c", "i", "f", "i", "c", " ", "n", "e", "t", "w", "o", "r", "k", "i", "n", "g",
       " ", "o", "b", "j", "e", "c", "t", "i", "v", "e", "s", "." >>

\* "Connection analysis shows: "
AnsConnectionPre ==
    << "C", "o", "n", "n", "e", "c", "t", "i", "o", "n", " ", "a", "n", "a", "l", "y", "s", "i",
       "s", " ", "s", "h", "o", "w", "s", ":", " " >>

\* " Use these insights to prioritize your outreach efforts."
AnsConnectionPost ==
    << " ", "U", "s", "e", " ", "t", "h", "e", "s", "e", " ", "i", "n", "s", "i", "g", "h", "t",
       "s", " ", "t", "o", " ", "p", "r", "i", "o", "r", "i", "t", "i", "z", "e", " ", "y", "o",
       "u", "r", " ", "o", "u", "t", "r", "e", "a", "c", "h", " ", "e", "f", "f", "o", "r", "t",
       "s", "." >>

\* "Based on professional networking best practices: "
AnsFallbackPre ==
    << "B", "a", "s", "e", "d", " ", "o", "n", " ", "p", "r", "o", "f", "e", "s", "s", "i", "o",
       "n", "a", "l", " ", "n", "e", "t", "w", "o", "r", "k", "i", "n", "g", " ", "b", "e", "s",
       "t", " ", "p", "r", "a", "c", "t", "i", "c", "e", "s", ":", " " >>

\* "Networking knowledge base - "
SourcePre ==
    << "N", "e", "t", "w", "o", "r", "k", "i", "n", "g", " ", "k", "n", "o", "w", "l", "e", "d",
       "g", "e", " ", "b", "a", "s", "e", " ", "-", " " >>

\* "Prioritize quality over quantity in professional relationships"
BI_ns1 ==
    << "P", "r", "i", "o", "r", "i", "t", "i", "z", "e", " ", "q", "u", "a", "l", "i", "t", "y",
       " ", "o", "v", "e", "r", " ", "q", "u", "a", "n", "t", "i", "t", "y", " ", "i", "n", " ",
       "p", "r", "o", "f", "e", "s", "s", "i", "o", "n", "a", "l", " ", "r", "e", "l", "a", "t",
       "i", "o", "n", "s", "h", "i", "p", "s" >>

\* "Leverage existing connections for warm introductions"
BI_ns2 ==
    << "L", "e", "v", "e", "r", "a", "g", "e", " ", "e", "x", "i", "s", "t", "i", "n", "g", " ",
       "c", "o", "n", "n", "e", "c", "t", "i", "o", "n", "s", " ", "f", "o", "r", " ", "w", "a",
       "r", "m", " ", "i", "n", "t", "r", "o", "d", "u", "c", "t", "i", "o", "n", "s" >>

\* "Engage consistently with your professional network"
BI_ns3 ==
    << "E", "n", "g", "a", "g", "e", " ", "c", "o", "n", "s", "i", "s", "t", "e", "n", "t", "l",
       "y", " ", "w", "i", "t", "h", " ", "y", "o", "u", "r", " ", "p", "r", "o", "f", "e", "s",
       "s", "i", "o", "n", "a", "l", " ", "n", "e", "t", "w", "o", "r", "k" >>

\* "Research thoroughly before making contact"
BI_ia1 ==
    << "R", "e", "s", "e", "a", "r", "c", "h", " ", "t", "h", "o", "r", "o", "u", "g", "h", "l",
       "y", " ", "b", "e", "f", "o", "r", "e", " ", "m", "a", "k", "i", "n", "g", " ", "c", "o",
       "n", "t", "a", "c", "t" >>

\* "Clearly articulate mutual value propositions"
BI_ia2 ==
    << "C", "l", "e", "a", "r", "l", "y", " ", "a", "r", "t", "i", "c", "u", "l", "a", "t", "e",
       " ", "m", "u", "t", "u", "a", "l", " ", "v", "a", "l", "u", "e", " ", "p", "r", "o", "p",
       "o", "s", "i", "t", "i", "o", "n", "s" >>

\* "Follow professional introduction etiquette"
BI_ia3 ==
    << "F", "o", "l", "l", "o", "w", " ", "p", "r", "o", "f", "e", "s", "s", "i", "o", "n", "a",
       "l", " ", "i", "n", "t", "r", "o", "d", "u", "c", "t", "i", "o", "n", " ", "e", "t", "i",
       "q", "u", "e", "t", "t", "e" >>

\* "Stay current with industry trends and developments"
BI_ii1 ==
    << "S", "t", "a", "y", " ", "c", "u", "r", "r", "e", "n", "t", " ", "w", "i", "t", "h", " ",
       "i", "n", "d", "u", "s", "t", "r", "y", " ", "t", "r", "e", "n", "d", "s", " ", "a", "n",
       "d", " ", "d", "e", "v", "e", "l", "o", "p", "m", "e", "n", "t", "s" >>

\* "Identify key influencers and thought leaders"
BI_ii2 ==
    << "I", "d", "e", "n", "t", "i", "f", "y", " ", "k", "e", "y", " ", "i", "n", "f", "l", "u",
       "e", "n", "c", "e", "r", "s", " ", "a", "n", "d", " ", "t", "h", "o", "u", "g", "h", "t",
       " ", "l", "e", "a", "d", "e", "r", "s" >>

\* "Participate in relevant professional communities"
BI_ii3 ==
    << "P", "a", "r", "t", "i", "c", "i", "p", "a", "t", "e", " ", "i", "n", " ", "r", "e", "l",
       "e", "v", "a", "n", "t", " ", "p", "r", "o", "f", "e", "s", "s", "i", "o", "n", "a", "l",
       " ", "c", "o", "m", "m", "u", "n", "i", "t", "i", "e", "s" >>

\* "Monitor relationship strength indicators"
BI_ca1 ==
    << "M", "o", "n", "i", "t", "o", "r", " ", "r", "e", "l", "a", "t", "i", "o", "n", "s", "h",
       "i", "p", " ", "s", "t", "r", "e", "n", "g", "t", "h", " ", "i", "n", "d", "i", "c", "a",
       "t", "o", "r", "s" >>

\* "Track engagement patterns over time"
BI_ca2 ==
    << "T", "r", "a", "c", "k", " ", "e", "n", "g", "a", "g", "e", "m", "e", "n", "t", " ", "p",
       "a", "t", "t", "e", "r", "n", "s", " ", "o", "v", "e", "r", " ", "t", "i", "m", "e" >>

\* "Focus on connections with highest potential value"
BI_ca3 ==
    << "F", "o", "c", "u", "s", " ", "o", "n", " ", "c", "o", "n", "n", "e", "c", "t", "i", "o",
       "n", "s", " ", "w", "i", "t", "h", " ", "h", "i", "g", "h", "e", "s", "t", " ", "p", "o",
       "t", "e", "n", "t", "i", "a", "l", " ", "v", "a", "l", "u", "e" >>

\* "'NoneType' object has no attribute 'lower'"
ErrNoLower ==
    << "'", "N", "o", "n", "e", "T", "y", "p", "e", "'", " ", "o", "b", "j", "e", "c", "t", " ",
       "h", "a", "s", " ", "n", "o", " ", "a", "t", "t", "r", "i", "b", "u", "t", "e", " ", "'",
       "l", "o", "w", "e", "r", "'" >>

\* "'int' object has no attribute 'get'"
ErrNoGet ==
    << "'", "i", "n", "t", "'", " ", "o", "b", "j", "e", "c", "t", " ", "h", "a", "s", " ", "n",
       "o", " ", "a", "t", "t", "r", "i", "b", "u", "t", "e", " ", "'", "g", "e", "t", "'" >>

\* "LinkedIn warm introductions increase success by 70%"
LinkedInText ==
    << "L", "i", "n", "k", "e", "d", "I", "n", " ", "w", "a", "r", "m", " ", "i", "n", "t", "r",
       "o", "d", "u", "c", "t", "i", "o", "n", "s", " ", "i", "n", "c", "r", "e", "a", "s", "e",
       " ", "s", "u", "c", "c", "e", "s", "s", " ", "b", "y", " ", "7", "0", "%" >>

\* " \t "
QT_blank ==
    << " ", "\t", " " >>

\* "b"
QT_b ==
    << "b" >>

\* "B zz"
QT_B_zz ==
    << "B", " ", "z", "z" >>

\* "zz warm LINKEDIN"
QT_zz_warm_linkedin ==
    << "z", "z", " ", "w", "a", "r", "m", " ", "L", "I", "N", "K", "E", "D", "I", "N" >>

\* "b b"
QT_b_b ==
    << "b", " ", "b" >>

\* "What about fintech?"
QT_fintech ==
    << "W", "h", "a", "t", " ", "a", "b", "o", "u", "t", " ", "f", "i", "n", "t", "e", "c", "h",
       "?" >>

\* "How do I get a warm introduction on LinkedIn?"
QT_linkedin ==
    << "H", "o", "w", " ", "d", "o", " ", "I", " ", "g", "e", "t", " ", "a", " ", "w", "a", "r",
       "m", " ", "i", "n", "t", "r", "o", "d", "u", "c", "t", "i", "o", "n", " ", "o", "n", " ",
       "L", "i", "n", "k", "e", "d", "I", "n", "?" >>

\* "Which Company should I target?"
QT_company ==
    << "W", "h", "i", "c", "h", " ", "C", "o", "m", "p", "a", "n", "y", " ", "s", "h", "o", "u",
       "l", "d", " ", "I", " ", "t", "a", "r", "g", "e", "t", "?" >>

\* "finance sector"
CT_finance ==
    << "f", "i", "n", "a", "n", "c", "e", " ", "s", "e", "c", "t", "o", "r" >>

\* "WARM"
QT_WARM ==
    << "W", "A", "R", "M" >>

\* "query"
A_query ==
    << "q", "u", "e", "r", "y" >>

\* "add_documents"
A_add_documents ==
    << "a", "d", "d", "_", "d", "o", "c", "u", "m", "e", "n", "t", "s" >>

\* "stats"
A_stats ==
    << "s", "t", "a", "t", "s" >>

\* "Unknown action: "
UnknownActionPre ==
    << "U", "n", "k", "n", "o", "w", "n", " ", "a", "c", "t", "i", "o", "n", ":", " " >>

\* "None"
NoneRepr ==
    << "N", "o", "n", "e" >>

\* "'list' object has no attribute 'get'"
ErrListNoGet ==
    << "'", "l", "i", "s", "t", "'", " ", "o", "b", "j", "e", "c", "t", " ", "h", "a", "s", " ",
       "n", "o", " ", "a", "t", "t", "r", "i", "b", "u", "t", "e", " ", "'", "g", "e", "t", "'" >>

\* "Expecting value: line 1 column 1 (char 0)"
ErrJson ==
    << "E", "x", "p", "e", "c", "t", "i", "n", "g", " ", "v", "a", "l", "u", "e", ":", " ", "l",
       "i", "n", "e", " ", "1", " ", "c", "o", "l", "u", "m", "n", " ", "1", " ", "(", "c", "h",
       "a", "r", " ", "0", ")" >>

(***************************************************************************)
(* Inputs                                                                  *)
(***************************************************************************)
\* The number of documents the store may hold.
MaxDocs ==
    4

\* A content of more than 200 characters: "B c ", 197 times "x", " zz".  The
\* token zz lies beyond character 200.
LongText ==
    << "B", " ", "c", " " >> \o [i \in 1..197 |-> "x"] \o << " ", "z", "z" >>

Dict(fields) ==
    [type |-> "dict", val |-> fields]

LinkedInDoc ==
    Dict([content |-> Str(LinkedInText), meta |-> {<< "source", "test" >>}])

\* A mapping without the key meta.
LongDoc ==
    Dict([content |-> Str(LongText)])

\* A mapping without the key content.
NoContentDoc ==
    Dict([meta |-> EmptyMeta])

\* A mapping whose content is None (JSON null).
NullContentDoc ==
    Dict([content |-> None, meta |-> EmptyMeta])

\* A batch element that is no mapping.
NotADict ==
    [type |-> "int", val |-> 5]

Batches ==
    { <<>>,
      << LinkedInDoc >>,
      << LongDoc >>,
      << NoContentDoc >>,
      << NullContentDoc >>,
      << NotADict >>,
      << LongDoc, LinkedInDoc >>,
      << LinkedInDoc, NotADict, LongDoc >>,
      << NotADict, LongDoc >> }

Questions ==
    { Str(<<>>), Str(QT_blank), Str(QT_b), Str(QT_B_zz), Str(QT_WARM),
      Str(QT_zz_warm_linkedin), Str(QT_b_b), Str(QT_fintech), Str(QT_linkedin),
      Str(QT_company), None }

Contexts ==
    { <<>>, CT_finance }

Categories ==
    { T_networking_strategy, T_introduction_advice, K_industry_insights,
      K_connection_analysis, T_bogus, K_introduction_techniques }

\* The calls of query that are tried: every question with the default context and
\* category, two questions with every category, and each context where the
\* context is read or the question has no tokens.
QueryInputs ==
    (Questions \X { <<>> } \X { T_networking_strategy })
    \cup ({ Str(QT_fintech), Str(QT_company) } \X { <<>> } \X Categories)
    \cup ({ Str(QT_fintech), Str(<<>>) } \X Contexts \X { K_industry_insights, T_bogus })

\* The texts of the str questions, and of the contents a stored document can have.
QuestionTexts ==
    { q.val : q \in { x \in Questions : IsStr(x) } }

ContentTexts ==
    { LinkedInText, LongText, <<>> }

AnswerInputs ==
    { << in[1].val, in[2], in[3] >> : in \in { x \in QueryInputs : IsStr(x[1]) } }

\* What the stdin worker is started with: the JSON documents tried, an input
\* whose top level is a list, and an input that is no JSON at all (empty).
\* "data" may be missing, may lack keys, and may be no mapping.
WorkerInputs ==
    { Dict([action |-> Str(A_query), data |-> Dict([question |-> Str(QT_linkedin)])]),
      Dict([data |-> Dict([question |-> Str(QT_B_zz), query_type |-> T_bogus])]),
      Dict([action |-> Str(A_query)]),
      Dict([action |-> Str(A_query), data |-> Dict([question |-> None])]),
      Dict([action |-> Str(A_query), data |-> NotADict]),
      Dict([action |-> Str(A_add_documents),
            data   |-> Dict([documents |-> << LinkedInDoc, LongDoc >>])]),
      Dict([action |-> Str(A_add_documents),
            data   |-> Dict([documents |-> << LinkedInDoc, NotADict, LongDoc >>])]),
      Dict([action |-> Str(A_add_documents), data |-> Dict(<<>>)]),
      Dict([action |-> Str(A_stats)]),
      Dict([action |-> Str(A_stats), data |-> NotADict]),
      Dict([action |-> Str(T_bogus)]),
      Dict([action |-> None]),
      [type |-> "list", val |-> <<>>],
      [type |-> "invalid json", val |-> <<>>] }

(***************************************************************************)
(* SimpleNetworkingRAG                                                     *)
(***************************************************************************)
\* dict.get(key, default)
DictGet(d, key, default) ==
    IF key \in DOMAIN d THEN d[key] ELSE default

\* self.knowledge_base, built by __init__ and never assigned again.
knowledge_base ==
    (K_networking_strategies :> << NS1, NS2, NS3, NS4, NS5 >>)
    @@ (K_introduction_techniques :> << IT1, IT2, IT3, IT4, IT5 >>)
    @@ (K_industry_insights :> << II1, II2, II3, II4 >>)
    @@ (K_connection_analysis :> << CA1, CA2, CA3, CA4 >>)

\* self.knowledge_base when the entries of writes have been assigned to it
\* after __init__.
KnowledgeTable(writes) ==
    writes @@ knowledge_base

\* The display length of a retrieved document's content.
TruncLen ==
    200

\* The slice of the ranked list that query returns.
TopK ==
    3

\* StoredDoc with doc.get('content') in place of doc.get('content', ''): a missing
\* content is stored as None.
StoredDocNoDefault(doc) ==
    [content |-> DictGet(doc.val, "content", None),
     meta    |-> DictGet(doc.val, "meta", EmptyMeta)]

\* The dict that add_documents appends for one input mapping.
StoredDoc(doc) ==
    [content |-> DictGet(doc.val, "content", Str(<<>>)),
     meta    |-> DictGet(doc.val, "meta", EmptyMeta)]

\* The index of the first element of docs whose .get raises, Len(docs) + 1 if none.
FirstBad(docs) ==
    IF \E i \in 1..Len(docs) : ~IsDict(docs[i])
    THEN CHOOSE i \in 1..Len(docs) :
            /\ ~IsDict(docs[i])
            /\ \A j \in 1..(i - 1) : IsDict(docs[j])
    ELSE Len(docs) + 1

\* DocumentsAfterAdd of a loop that inserts at the front: self.documents.insert(0, ...).
DocumentsPrepended(store, docs) ==
    [i \in 1..(FirstBad(docs) - 1) |-> StoredDoc(docs[FirstBad(docs) - i])] \o store

\* DocumentsAfterAdd of an add_documents that builds the new dicts first and
\* extends self.documents only when none of them raised.
DocumentsAfterAddAllOrNothing(store, docs) ==
    IF FirstBad(docs) > Len(docs)
    THEN store \o [i \in 1..Len(docs) |-> StoredDoc(docs[i])]
    ELSE store

\* self.documents after add_documents(docs): the loop appends one element at a
\* time and stops at the first element that raises.
DocumentsAfterAdd(store, docs) ==
    store \o [i \in 1..(FirstBad(docs) - 1) |-> StoredDoc(docs[i])]

\* add_documents with total_documents counted before the loop, the batch left out.
add_documents_total_before(store, docs) ==
    IF FirstBad(docs) > Len(docs)
    THEN [success         |-> TRUE,
          count           |-> Len(docs),
          total_documents |-> Len(store)]
    ELSE [success |-> FALSE,
          error   |-> ErrNoGet,
          count   |-> 0]

\* The value add_documents(docs) returns.
add_documents(store, docs) ==
    IF FirstBad(docs) > Len(docs)
    THEN [success         |-> TRUE,
          count           |-> Len(docs),
          total_documents |-> Len(DocumentsAfterAdd(store, docs))]
    ELSE [success |-> FALSE,
          error   |-> ErrNoGet,
          count   |-> 0]

\* RelevanceScore with `term in content.split(' ')` in place of `term in content`:
\* a term counts only when it stands in the content as a whole word, between
\* spaces or the ends.
RelevanceScoreWholeWord(search_terms, content) ==
    Cardinality({i \in 1..Len(search_terms) :
                    Contains(<< " " >> \o search_terms[i] \o << " " >>,
                             << " " >> \o content \o << " " >>)})

\* sum(1 for term in search_terms if term in content): one per list position,
\* so a term the question repeats is counted at each of its positions.
RelevanceScore(search_terms, content) ==
    Cardinality({i \in 1..Len(search_terms) : Contains(search_terms[i], content)})

\* doc['content'][:200] + '...' if len(doc['content']) > 200 else doc['content']
Display(content) ==
    IF Len(content) > TruncLen
    THEN Prefix(content, TruncLen) \o << ".", ".", "." >>
    ELSE content

\* InsertPos of a sort that puts e before the elements of its own score.
InsertPosBeforeTies(s, e) ==
    Cardinality({i \in 1..Len(s) : s[i].relevance_score > e.relevance_score})

\* The position at which a stable descending sort puts e in the sorted list s:
\* after every element whose score is at least e's.
InsertPos(s, e) ==
    Cardinality({i \in 1..Len(s) : s[i].relevance_score >= e.relevance_score})

Insert(s, e) ==
    SubSeq(s, 1, InsertPos(s, e)) \o << e >> \o SubSeq(s, InsertPos(s, e) + 1, Len(s))

\* sorted(relevant, key=lambda x: x['relevance_score'], reverse=True): stable, so
\* elements of equal score keep the order they have in relevant.
RECURSIVE SortedByScoreDesc(_)
SortedByScoreDesc(relevant) ==
    IF relevant = <<>>
    THEN <<>>
    ELSE Insert(SortedByScoreDesc(SubSeq(relevant, 1, Len(relevant) - 1)),
                relevant[Len(relevant)])

\* The score of a document's content for a question: the terms are
\* question.lower().split(), the content is lower-cased.
ScoreOf(question, content) ==
    RelevanceScore(Split(Lower(question)), Lower(content))

\* ScoreOf on the texts of the model's inputs, computed once.
ScoreMemo ==
    [p \in QuestionTexts \X ContentTexts |-> ScoreOf(p[1], p[2])] @@ <<>>

Score(question, content) ==
    IF << question, content >> \in DOMAIN ScoreMemo
    THEN ScoreMemo[<< question, content >>]
    ELSE ScoreOf(question, content)

\* Entry with the score computed on the displayed content.
EntryScoredOnDisplay(store, question, i) ==
    [content         |-> Display(store[i].content.val),
     relevance_score |-> ScoreOf(question, Display(store[i].content.val)),
     meta            |-> store[i].meta,
     idx             |-> i]

\* The entry _find_relevant_documents builds for the document at index i; idx is
\* not a field of the program's entry: it records which stored document the
\* entry came from.
Entry(store, question, i) ==
    [content         |-> Display(store[i].content.val),
     relevance_score |-> Score(question, store[i].content.val),
     meta            |-> store[i].meta,
     idx             |-> i]

\* Relevant with the threshold off by one.
RelevantAboveOne(e) ==
    e.relevance_score > 1

\* if relevance_score > 0
Relevant(e) ==
    e.relevance_score > 0

\* _find_relevant_documents(question, context): question.lower() raises on a
\* question that is no str, doc['content'].lower() on the first document whose
\* content is no str.
_find_relevant_documents(store, question, context) ==
    IF ~IsStr(question)
    THEN Raise(ErrNoLower)
    ELSE IF \E i \in 1..Len(store) : ~IsStr(store[i].content)
         THEN Raise(ErrNoLower)
         ELSE Return(SortedByScoreDesc(
                  SelectSeq([i \in 1..Len(store) |-> Entry(store, question.val, i)],
                            Relevant)))

\* industries with the longer keyword "fintech" tried before "finance" and "tech".
industries_fintech_first ==
    << W_technology, W_fintech, W_finance, W_healthcare, W_consulting, W_tech >>

industries ==
    << W_technology, W_finance, W_healthcare, W_consulting, W_tech, W_fintech >>

\* _extract_industry_context(question, context): the first keyword, in list order,
\* found in f"{question} {context}".lower().
_extract_industry_context(question, context) ==
    LET text == Lower(question \o << " " >> \o context)
    IN  IF \E i \in 1..Len(industries) : Contains(industries[i], text)
        THEN industries[CHOOSE i \in 1..Len(industries) :
                            /\ Contains(industries[i], text)
                            /\ \A j \in 1..(i - 1) : ~Contains(industries[j], text)]
        ELSE W_general

\* next((insight for insight in knowledge if key in insight.lower()), knowledge[0])
FirstInsightWith(knowledge, key) ==
    IF \E i \in 1..Len(knowledge) : Contains(key, Lower(knowledge[i]))
    THEN knowledge[CHOOSE i \in 1..Len(knowledge) :
                       /\ Contains(key, Lower(knowledge[i]))
                       /\ \A j \in 1..(i - 1) : ~Contains(key, Lower(knowledge[j]))]
    ELSE knowledge[1]

\* _generate_answer with every query_type outside the four tags handled as
\* "networking_strategy".
_generate_answer_default_tag(question, context, query_type, knowledge) ==
    IF query_type = T_introduction_advice
    THEN AnsIntroPre \o knowledge[1] \o << " " >> \o knowledge[2] \o AnsIntroPost
    ELSE IF query_type = K_industry_insights
    THEN AnsIndustryPre
         \o FirstInsightWith(knowledge, Lower(_extract_industry_context(question, context)))
         \o AnsIndustryPost
    ELSE IF query_type = K_connection_analysis
    THEN AnsConnectionPre \o knowledge[1] \o << " " >> \o knowledge[3] \o AnsConnectionPost
    ELSE IF Contains(W_company, Lower(question))
    THEN AnsCompanyPre \o knowledge[1] \o AnsCompanyPost
    ELSE knowledge[1] \o << " " >> \o knowledge[2] \o AnsGenericPost

\* _generate_answer(question, context, query_type, knowledge); question and
\* context are the texts of two str values.
_generate_answer(question, context, query_type, knowledge) ==
    IF query_type = T_networking_strategy
    THEN IF Contains(W_company, Lower(question))
         THEN AnsCompanyPre \o knowledge[1] \o AnsCompanyPost
         ELSE knowledge[1] \o << " " >> \o knowledge[2] \o AnsGenericPost
    ELSE IF query_type = T_introduction_advice
    THEN AnsIntroPre \o knowledge[1] \o << " " >> \o knowledge[2] \o AnsIntroPost
    ELSE IF query_type = K_industry_insights
    THEN AnsIndustryPre
         \o FirstInsightWith(knowledge, Lower(_extract_industry_context(question, context)))
         \o AnsIndustryPost
    ELSE IF query_type = K_connection_analysis
    THEN AnsConnectionPre \o knowledge[1] \o << " " >> \o knowledge[3] \o AnsConnectionPost
    ELSE AnsFallbackPre \o knowledge[1]

base_insights ==
    (T_networking_strategy :> << BI_ns1, BI_ns2, BI_ns3 >>)
    @@ (T_introduction_advice :> << BI_ia1, BI_ia2, BI_ia3 >>)
    @@ (K_industry_insights :> << BI_ii1, BI_ii2, BI_ii3 >>)
    @@ (K_connection_analysis :> << BI_ca1, BI_ca2, BI_ca3 >>)

\* _extract_insights(question, query_type, knowledge)
_extract_insights(question, query_type, knowledge) ==
    DictGet(base_insights, query_type, base_insights[T_networking_strategy])

\* Drops the bookkeeping field idx of an entry.
Plain(e) ==
    [content |-> e.content, relevance_score |-> e.relevance_score, meta |-> e.meta]

\* Top without the slice.
TopAll(ranked) ==
    ranked

\* relevant_docs[:3]
Top(ranked) ==
    SubSeq(ranked, 1, IF Len(ranked) < TopK THEN Len(ranked) ELSE TopK)

\* The dict that the except branch of query returns.
QueryFailure(msg) ==
    [success    |-> FALSE,
     error      |-> msg,
     answer     |-> <<>>,
     confidence |-> 0,
     sources    |-> <<>>,
     insights   |-> <<>>]

\* _generate_answer on the calls of the model's inputs with the statements of the
\* table that __init__ builds, computed once.
AnswerMemo ==
    [in \in AnswerInputs |-> _generate_answer(in[1], in[2], in[3],
          DictGet(knowledge_base, in[3], knowledge_base[K_networking_strategies]))] @@ <<>>

Answer(writes, question, context, query_type, knowledge) ==
    IF writes = <<>> /\ << question, context, query_type >> \in DOMAIN AnswerMemo
    THEN AnswerMemo[<< question, context, query_type >>]
    ELSE _generate_answer(question, context, query_type, knowledge)

\* query with a confidence that depends on the retrieval: 0.85 when a document
\* was retrieved, 0.5 when none was.
query_confidence_by_retrieval(store, writes, question, context, query_type) ==
    LET table == KnowledgeTable(writes)
        relevant_knowledge ==
            DictGet(table, query_type, table[K_networking_strategies])
        relevant_docs == _find_relevant_documents(store, question, context)
        top == Top(relevant_docs.value)
    IN  IF relevant_docs.raised
        THEN QueryFailure(relevant_docs.error)
        ELSE [success             |-> TRUE,
              answer              |-> Answer(writes, question.val, context, query_type,
                                             relevant_knowledge),
              confidence          |-> IF Len(top) > 0 THEN 85 ELSE 50,
              sources             |-> << SourcePre \o query_type >>,
              insights            |-> _extract_insights(question, query_type,
                                                        relevant_knowledge),
              retrieved_documents |-> [i \in 1..Len(top) |-> Plain(top[i])]]

\* SimpleNetworkingRAG.query(question, context, query_type) on the store and the
\* knowledge table: the returned dict.  context and query_type are texts.
query(store, writes, question, context, query_type) ==
    LET table == KnowledgeTable(writes)
        relevant_knowledge ==
            DictGet(table, query_type, table[K_networking_strategies])
        relevant_docs == _find_relevant_documents(store, question, context)
        top == Top(relevant_docs.value)
    IN  IF relevant_docs.raised
        THEN QueryFailure(relevant_docs.error)
        ELSE [success             |-> TRUE,
              answer              |-> Answer(writes, question.val, context, query_type,
                                             relevant_knowledge),
              confidence          |-> 85,
              sources             |-> << SourcePre \o query_type >>,
              insights            |-> _extract_insights(question, query_type,
                                                        relevant_knowledge),
              retrieved_documents |-> [i \in 1..Len(top) |-> Plain(top[i])]]

\* The stored indices of the documents in query's retrieved_documents, in order.
RetrievedIdx(store, question, context) ==
    LET relevant_docs == _find_relevant_documents(store, question, context)
        top == Top(relevant_docs.value)
    IN  IF relevant_docs.raised
        THEN <<>>
        ELSE [i \in 1..Len(top) |-> top[i].idx]

\* DocumentsAfterQuery of a query that reverses self.documents in place.
DocumentsReversed(store, question, context, query_type) ==
    [i \in 1..Len(store) |-> store[Len(store) + 1 - i]]

\* self.documents after query: no statement of query, _find_relevant_documents,
\* _generate_answer or _extract_insights assigns or mutates it.
DocumentsAfterQuery(store, question, context, query_type) ==
    store

\* WritesAfterQuery of a query that looks the statements up with
\* self.knowledge_base.setdefault(query_type, ...): a category that is no key
\* becomes one.
WritesAfterSetdefault(writes, question, context, query_type) ==
    IF query_type \in DOMAIN KnowledgeTable(writes)
    THEN writes
    ELSE (query_type :> KnowledgeTable(writes)[K_networking_strategies]) @@ writes

\* The entries assigned to self.knowledge_base after __init__, after query: the
\* table is read with .get and indexing only; no statement of query or of
\* the methods it calls assigns to it or mutates one of its lists.
WritesAfterQuery(writes, question, context, query_type) ==
    writes

\* get_stats()
get_stats(store, writes) ==
    [success              |-> TRUE,
     total_documents      |-> Len(store),
     knowledge_categories |-> Cardinality(DOMAIN KnowledgeTable(writes)),
     document_store_type  |-> "Simple In-Memory Store",
     embedding_model      |-> "Text-based similarity matching",
     llm_model            |-> "Rule-based response generation"]

\* rag = SimpleNetworkingRAG() in main: __init__ sets self.documents = [] and
\* loads nothing.  previous is the store the invocation before ended with.
StoreAtStart(previous) ==
    <<>>

\* The dict that the except branch of main prints.
MainFailure(msg) ==
    [success    |-> FALSE,
     error      |-> msg,
     answer     |-> <<>>,
     confidence |-> 0]

\* {action} in the f-string of main, for a str and for None.
Format(v) ==
    IF IsStr(v) THEN v.val ELSE NoneRepr

\* input_data.get('action', 'query') and input_data.get('data', {})
WorkerAction(input_data) ==
    DictGet(input_data.val, "action", Str(A_query))

WorkerData(input_data) ==
    DictGet(input_data.val, "data", Dict(<<>>))

\* main(): what one invocation of the worker prints, given what it reads from
\* stdin.
main(previous, stdin) ==
    LET rag_documents == StoreAtStart(previous)
    IN  IF stdin.type = "invalid json" THEN MainFailure(ErrJson)
        ELSE IF ~IsDict(stdin) THEN MainFailure(ErrListNoGet)
        ELSE LET action == WorkerAction(stdin)
                 data   == WorkerData(stdin)
             IN  IF action = Str(A_query)
                 THEN IF ~IsDict(data) THEN MainFailure(ErrNoGet)
                      ELSE query(rag_documents, <<>>,
                                 DictGet(data.val, "question", Str(<<>>)),
                                 DictGet(data.val, "context", <<>>),
                                 DictGet(data.val, "query_type", T_networking_strategy))
                 ELSE IF action = Str(A_add_documents)
                 THEN IF ~IsDict(data) THEN MainFailure(ErrNoGet)
                      ELSE add_documents(rag_documents, DictGet(data.val, "documents", <<>>))
                 ELSE IF action = Str(A_stats)
                 THEN get_stats(rag_documents, <<>>)
                 ELSE [success |-> FALSE, error |-> UnknownActionPre \o Format(action)]

\* rag.documents when the invocation ends.
StoreAtExit(previous, stdin) ==
    LET rag_documents == StoreAtStart(previous)
    IN  IF /\ IsDict(stdin)
           /\ WorkerAction(stdin) = Str(A_add_documents)
           /\ IsDict(WorkerData(stdin))
        THEN DocumentsAfterAdd(rag_documents,
                               DictGet(WorkerData(stdin).val, "documents", <<>>))
        ELSE rag_documents

(***************************************************************************)
(* Text constants of haystack_rag_pipeline.py, simple_rag.py, pipeline.py  *)
(* and of the replies tried                                                *)
(***************************************************************************)
\* "Professional networking knowledge base"
PipelineSource ==
    << "P", "r", "o", "f", "e", "s", "s", "i", "o", "n", "a", "l", " ", "n", "e", "t", "w", "o",
       "r", "k", "i", "n", "g", " ", "k", "n", "o", "w", "l", "e", "d", "g", "e", " ", "b", "a",
       "s", "e" >>

\* "Error processing query: "
PipelineErrorPre ==
    << "E", "r", "r", "o", "r", " ", "p", "r", "o", "c", "e", "s", "s", "i", "n", "g", " ", "q",
       "u", "e", "r", "y", ":", " " >>

\* "warm introduction"
TR_warm_introduction ==
    << "w", "a", "r", "m", " ", "i", "n", "t", "r", "o", "d", "u", "c", "t", "i", "o", "n" >>

\* "mutual"
TR_mutual ==
    << "m", "u", "t", "u", "a", "l" >>

\* "value"
TR_value ==
    << "v", "a", "l", "u", "e" >>

\* "follow up"
TR_follow_up ==
    << "f", "o", "l", "l", "o", "w", " ", "u", "p" >>

\* "follow-up"
TR_follow_hyphen_up ==
    << "f", "o", "l", "l", "o", "w", "-", "u", "p" >>

\* "authentic"
TR_authentic ==
    << "a", "u", "t", "h", "e", "n", "t", "i", "c" >>

\* "industry"
TR_industry ==
    << "i", "n", "d", "u", "s", "t", "r", "y" >>

\* "timing"
TR_timing ==
    << "t", "i", "m", "i", "n", "g" >>

\* "Leverage warm introductions"
PI_warm ==
    << "L", "e", "v", "e", "r", "a", "g", "e", " ", "w", "a", "r", "m", " ", "i", "n", "t", "r",
       "o", "d", "u", "c", "t", "i", "o", "n", "s" >>

\* "Focus on mutual connections"
PI_mutual ==
    << "F", "o", "c", "u", "s", " ", "o", "n", " ", "m", "u", "t", "u", "a", "l", " ", "c", "o",
       "n", "n", "e", "c", "t", "i", "o", "n", "s" >>

\* "Lead with value proposition"
PI_value ==
    << "L", "e", "a", "d", " ", "w", "i", "t", "h", " ", "v", "a", "l", "u", "e", " ", "p", "r",
       "o", "p", "o", "s", "i", "t", "i", "o", "n" >>

\* "Maintain consistent follow-up"
PI_follow ==
    << "M", "a", "i", "n", "t", "a", "i", "n", " ", "c", "o", "n", "s", "i", "s", "t", "e", "n",
       "t", " ", "f", "o", "l", "l", "o", "w", "-", "u", "p" >>

\* "Build authentic relationships"
PI_authentic ==
    << "B", "u", "i", "l", "d", " ", "a", "u", "t", "h", "e", "n", "t", "i", "c", " ", "r", "e",
       "l", "a", "t", "i", "o", "n", "s", "h", "i", "p", "s" >>

\* "Consider industry context"
PI_industry ==
    << "C", "o", "n", "s", "i", "d", "e", "r", " ", "i", "n", "d", "u", "s", "t", "r", "y", " ",
       "c", "o", "n", "t", "e", "x", "t" >>

\* "Optimize outreach timing"
PI_timing ==
    << "O", "p", "t", "i", "m", "i", "z", "e", " ", "o", "u", "t", "r", "e", "a", "c", "h", " ",
       "t", "i", "m", "i", "n", "g" >>

\* "Prefer a Warm Introduction."
FR_warm ==
    << "P", "r", "e", "f", "e", "r", " ", "a", " ", "W", "a", "r", "m", " ", "I", "n", "t", "r",
       "o", "d", "u", "c", "t", "i", "o", "n", "." >>

\* "Find MUTUAL contacts."
FR_mutual ==
    << "F", "i", "n", "d", " ", "M", "U", "T", "U", "A", "L", " ", "c", "o", "n", "t", "a", "c",
       "t", "s", "." >>

\* "Offer value first."
FR_value ==
    << "O", "f", "f", "e", "r", " ", "v", "a", "l", "u", "e", " ", "f", "i", "r", "s", "t", "." >>

\* "Follow up in a week."
FR_follow_up ==
    << "F", "o", "l", "l", "o", "w", " ", "u", "p", " ", "i", "n", " ", "a", " ", "w", "e", "e",
       "k", "." >>

\* "A follow-up helps."
FR_follow_hyphen_up ==
    << "A", " ", "f", "o", "l", "l", "o", "w", "-", "u", "p", " ", "h", "e", "l", "p", "s", "." >>

\* "Stay authentic."
FR_authentic ==
    << "S", "t", "a", "y", " ", "a", "u", "t", "h", "e", "n", "t", "i", "c", "." >>

\* "Know the Industry."
FR_industry ==
    << "K", "n", "o", "w", " ", "t", "h", "e", " ", "I", "n", "d", "u", "s", "t", "r", "y", "." >>

\* "Timing matters."
FR_timing ==
    << "T", "i", "m", "i", "n", "g", " ", "m", "a", "t", "t", "e", "r", "s", "." >>

\* "Be kind."
FR_plain ==
    << "B", "e", " ", "k", "i", "n", "d", "." >>

\* "Connection error."
ErrGeneration ==
    << "C", "o", "n", "n", "e", "c", "t", "i", "o", "n", " ", "e", "r", "r", "o", "r", "." >>

\* "Unable to process networking query at this time"
SR_placeholder ==
    << "U", "n", "a", "b", "l", "e", " ", "t", "o", " ", "p", "r", "o", "c", "e", "s", "s", " ",
       "n", "e", "t", "w", "o", "r", "k", "i", "n", "g", " ", "q", "u", "e", "r", "y", " ", "a",
       "t", " ", "t", "h", "i", "s", " ", "t", "i", "m", "e" >>

\* "Focus on authentic relationship building"
SR_ok1 ==
    << "F", "o", "c", "u", "s", " ", "o", "n", " ", "a", "u", "t", "h", "e", "n", "t", "i", "c",
       " ", "r", "e", "l", "a", "t", "i", "o", "n", "s", "h", "i", "p", " ", "b", "u", "i", "l",
       "d", "i", "n", "g" >>

\* "Provide value before asking for favors"
SR_ok2 ==
    << "P", "r", "o", "v", "i", "d", "e", " ", "v", "a", "l", "u", "e", " ", "b", "e", "f", "o",
       "r", "e", " ", "a", "s", "k", "i", "n", "g", " ", "f", "o", "r", " ", "f", "a", "v", "o",
       "r", "s" >>

\* "Maintain consistent professional follow-up"
SR_ok3 ==
    << "M", "a", "i", "n", "t", "a", "i", "n", " ", "c", "o", "n", "s", "i", "s", "t", "e", "n",
       "t", " ", "p", "r", "o", "f", "e", "s", "s", "i", "o", "n", "a", "l", " ", "f", "o", "l",
       "l", "o", "w", "-", "u", "p" >>

\* "Focus on building genuine professional relationships"
SR_fail1 ==
    << "F", "o", "c", "u", "s", " ", "o", "n", " ", "b", "u", "i", "l", "d", "i", "n", "g", " ",
       "g", "e", "n", "u", "i", "n", "e", " ", "p", "r", "o", "f", "e", "s", "s", "i", "o", "n",
       "a", "l", " ", "r", "e", "l", "a", "t", "i", "o", "n", "s", "h", "i", "p", "s" >>

\* "I apologize, but I encountered an error processing your question: "
WC_apology ==
    << "I", " ", "a", "p", "o", "l", "o", "g", "i", "z", "e", ",", " ", "b", "u", "t", " ", "I",
       " ", "e", "n", "c", "o", "u", "n", "t", "e", "r", "e", "d", " ", "a", "n", " ", "e", "r",
       "r", "o", "r", " ", "p", "r", "o", "c", "e", "s", "s", "i", "n", "g", " ", "y", "o", "u",
       "r", " ", "q", "u", "e", "s", "t", "i", "o", "n", ":", " " >>

\* "LinkedIn is the premier professional networking platform."
WC_sample ==
    << "L", "i", "n", "k", "e", "d", "I", "n", " ", "i", "s", " ", "t", "h", "e", " ", "p", "r",
       "e", "m", "i", "e", "r", " ", "p", "r", "o", "f", "e", "s", "s", "i", "o", "n", "a", "l",
       " ", "n", "e", "t", "w", "o", "r", "k", "i", "n", "g", " ", "p", "l", "a", "t", "f", "o",
       "r", "m", "." >>


(***************************************************************************)
(* NetworkingRAGPipeline (haystack_rag_pipeline.py)                        *)
(***************************************************************************)
\* insights[:5]
MaxInsights ==
    5

\* InsightIfs with "follow up" and "follow-up" tested by two statements, each
\* appending the follow-up insight.
InsightIfsFollowTwice(response) ==
    LET low == Lower(response)
    IN  << [hit |-> Contains(TR_warm_introduction, low), insight |-> PI_warm],
           [hit |-> Contains(TR_mutual, low), insight |-> PI_mutual],
           [hit |-> Contains(TR_value, low), insight |-> PI_value],
           [hit |-> Contains(TR_follow_up, low), insight |-> PI_follow],
           [hit |-> Contains(TR_follow_hyphen_up, low), insight |-> PI_follow],
           [hit |-> Contains(TR_authentic, low), insight |-> PI_authentic],
           [hit |-> Contains(TR_industry, low), insight |-> PI_industry],
           [hit |-> Contains(TR_timing, low), insight |-> PI_timing] >>

\* The insight each `if` of extract_insights appends when its test holds, in the
\* order of the statements.
InsightIfs(response) ==
    LET low == Lower(response)
    IN  << [hit |-> Contains(TR_warm_introduction, low), insight |-> PI_warm],
           [hit |-> Contains(TR_mutual, low), insight |-> PI_mutual],
           [hit |-> Contains(TR_value, low), insight |-> PI_value],
           [hit |-> Contains(TR_follow_up, low) \/ Contains(TR_follow_hyphen_up, low),
            insight |-> PI_follow],
           [hit |-> Contains(TR_authentic, low), insight |-> PI_authentic],
           [hit |-> Contains(TR_industry, low), insight |-> PI_industry],
           [hit |-> Contains(TR_timing, low), insight |-> PI_timing] >>

\* The list insights of extract_insights when it reaches the return statement.
AppendedInsights(response) ==
    LET hits == SelectSeq(InsightIfs(response), LAMBDA x : x.hit)
    IN  [i \in 1..Len(hits) |-> hits[i].insight]

\* extract_insights without the slice.
extract_insights_unsliced(response, query_type) ==
    AppendedInsights(response)

\* extract_insights(response, query_type)
extract_insights(response, query_type) ==
    Prefix(AppendedInsights(response), MaxInsights)

\* NetworkingRAGPipeline.query(question, context, query_type); outcome is what
\* self.rag_pipeline.run and the reading of its reply do: return the reply's text
\* or raise.
NetworkingRAGPipeline_query(question, context, query_type, outcome) ==
    IF outcome.raised
    THEN [answer     |-> PipelineErrorPre \o outcome.error,
          confidence |-> 0,
          sources    |-> <<>>,
          insights   |-> <<>>]
    ELSE [answer     |-> outcome.value,
          confidence |-> 85,
          sources    |-> << PipelineSource >>,
          insights   |-> extract_insights(outcome.value, query_type)]

(***************************************************************************)
(* simple_rag_query (simple_rag.py)                                        *)
(***************************************************************************)
\* simple_rag_query(question); outcome is what the import of openai, the client
\* and the completion call do: return the message content or raise.
simple_rag_query(question, outcome) ==
    IF outcome.raised
    THEN [answer     |-> SR_placeholder,
          insights   |-> << SR_fail1 >>,
          confidence |-> 50,
          success    |-> FALSE,
          error      |-> outcome.error]
    ELSE [answer     |-> outcome.value,
          insights   |-> << SR_ok1, SR_ok2, SR_ok3 >>,
          confidence |-> 90,
          success    |-> TRUE]

(***************************************************************************)
(* WarmConnectorRAG (pipeline.py)                                          *)
(***************************************************************************)
\* top_k of the retriever.
top_k ==
    5

\* One document as query renders it; the score is None when the retriever's
\* document has no attribute score.
RenderedDoc ==
    [content |-> WC_sample, meta |-> {<< "source", "linkedin_guide" >>}, score |-> None]

\* WarmConnectorRAG.query(question); outcome is what self.query_pipeline.run and
\* the reading of its result do: return the reply with the number of documents
\* the retriever gave, or raise.
WarmConnectorRAG_query(question, outcome) ==
    IF outcome.raised
    THEN [question |-> question,
          answer   |-> WC_apology \o outcome.error,
          success  |-> FALSE,
          error    |-> outcome.error]
    ELSE [question            |-> question,
          answer              |-> outcome.value.reply,
          retrieved_documents |-> [i \in 1..outcome.value.n_docs |-> RenderedDoc],
          success             |-> TRUE]

(***************************************************************************)
(* query_rag (haystack_api.py)                                             *)
(***************************************************************************)
\* "Error processing query: "
ApiErrorPre ==
    << "E", "r", "r", "o", "r", " ", "p", "r", "o", "c", "e", "s", "s", "i", "n", "g", " ", "q",
       "u", "e", "r", "y", ":", " " >>

\* "1 validation error for QueryResponse": how the message of the ValidationError
\* begins that QueryResponse(**result) raises when a required field is missing.
ErrValidation ==
    << "1", " ", "v", "a", "l", "i", "d", "a", "t", "i", "o", "n", " ", "e", "r", "r", "o", "r",
       " ", "f", "o", "r", " ", "Q", "u", "e", "r", "y", "R", "e", "s", "p", "o", "n", "s", "e" >>

\* The fields of QueryResponse that have no default.
QueryResponseRequired ==
    { "question", "answer", "retrieved_documents", "success" }

\* QueryResponse(**result): the model with error = None when result has no error,
\* a ValidationError when result lacks a required field.
QueryResponse(fields) ==
    IF QueryResponseRequired \subseteq DOMAIN fields
    THEN Return([question            |-> fields.question,
                 answer              |-> fields.answer,
                 retrieved_documents |-> fields.retrieved_documents,
                 success             |-> fields.success,
                 error               |-> DictGet(fields, "error", None)])
    ELSE Raise(ErrValidation)

\* query_rag(query) with the pipeline initialised: the response body.  outcome
\* is what WarmConnectorRAG.query meets.
query_rag(question, outcome) ==
    LET response == QueryResponse(WarmConnectorRAG_query(question, outcome))
    IN  IF response.raised
        THEN [question            |-> question,
              answer              |-> ApiErrorPre \o response.error,
              retrieved_documents |-> <<>>,
              success             |-> FALSE,
              error               |-> response.error]
        ELSE response.value

\* The sentences a generated reply is put together from.
Fragments ==
    << FR_warm, FR_mutual, FR_value, FR_follow_up, FR_follow_hyphen_up, FR_authentic,
       FR_industry, FR_timing, FR_plain >>

\* The reply that holds the sentences whose index is in S, in order.
RECURSIVE ReplyFrom(_, _)
ReplyFrom(S, i) ==
    IF i > Len(Fragments)
    THEN <<>>
    ELSE (IF i \in S THEN Fragments[i] \o << " " >> ELSE <<>>) \o ReplyFrom(S, i + 1)

Replies ==
    { ReplyFrom(S, 1) : S \in SUBSET (1..Len(Fragments)) }

\* What a call of the external generation service can do.
GenerationOutcomes ==
    { Return(r) : r \in Replies } \cup { Raise(ErrGeneration) }

\* What the query pipeline of WarmConnectorRAG can do.
RetrievalOutcomes ==
    { Return([reply |-> r, n_docs |-> n]) :
          r \in { ReplyFrom({1}, 1), ReplyFrom({}, 1) }, n \in 0..top_k }
    \cup { Raise(ErrGeneration) }

(***************************************************************************)
(* The state machine                                                       *)
(***************************************************************************)
Programs ==
    { "simpleHaystackRAG", "haystack_rag_pipeline", "simple_rag", "pipeline",
      "haystack_api", "simpleHaystackRAG_main" }

NoResult ==
    [none |-> TRUE]

\* A document as the callers mean it: a mapping with a str content; meta may
\* be missing.
WellFormed(doc) ==
    /\ IsDict(doc)
    /\ "content" \in DOMAIN doc.val
    /\ IsStr(doc.val.content)

\* well_formed_total after add_documents(docs).
WellFormedTotalAfterAdd(total, docs) ==
    IF total >= 0 /\ \A i \in 1..Len(docs) : WellFormed(docs[i])
    THEN total + Len(docs)
    ELSE -1

\* The state of a thread that is in no call.
Idle ==
    [pc |-> "idle"]

\* The variables of the interleaved execution, which the sequential calls
\* leave alone.
threads ==
    <<scan, writer>>

Init ==
    /\ program \in Programs
    /\ documents = <<>>
    /\ knowledge_writes = <<>>
    /\ call = [op |-> "init", args |-> <<>>]
    /\ result = NoResult
    /\ retrieved_idx = <<>>
    /\ repeat = FALSE
    /\ well_formed_total = 0
    /\ scan = Idle
    /\ writer = Idle

\* rag.add_documents(docs)
AddDocuments ==
    /\ program = "simpleHaystackRAG"
    /\ \E docs \in Batches :
        /\ Len(documents) + Len(docs) <= MaxDocs
        /\ documents' = DocumentsAfterAdd(documents, docs)
        /\ result' = add_documents(documents, docs)
        /\ call' = [op |-> "add_documents", args |-> << docs >>]
        /\ well_formed_total' = WellFormedTotalAfterAdd(well_formed_total, docs)
    /\ knowledge_writes' = knowledge_writes
    /\ retrieved_idx' = <<>>
    /\ repeat' = FALSE
    /\ UNCHANGED <<program, threads>>

\* rag.query(question, context, query_type)
Query ==
    /\ program = "simpleHaystackRAG"
    /\ \E in \in QueryInputs :
        /\ documents' = DocumentsAfterQuery(documents, in[1], in[2], in[3])
        /\ knowledge_writes' = WritesAfterQuery(knowledge_writes, in[1], in[2], in[3])
        /\ result' = query(documents, knowledge_writes, in[1], in[2], in[3])
        /\ retrieved_idx' = RetrievedIdx(documents, in[1], in[2])
        /\ call' = [op |-> "query", args |-> in]
        /\ repeat' = (call.op = "query" /\ call.args = in)
    /\ UNCHANGED <<program, well_formed_total, threads>>

\* rag.get_stats()
GetStats ==
    /\ program = "simpleHaystackRAG"
    /\ result' = get_stats(documents, knowledge_writes)
    /\ call' = [op |-> "get_stats", args |-> <<>>]
    /\ retrieved_idx' = <<>>
    /\ repeat' = FALSE
    /\ UNCHANGED <<program, documents, knowledge_writes, well_formed_total, threads>>

\* main of haystack_rag_pipeline.py: one call of
\* NetworkingRAGPipeline.query(question, context, query_type), then the process ends.
PipelineQuery ==
    /\ program = "haystack_rag_pipeline"
    /\ call.op = "init"
    /\ \E outcome \in GenerationOutcomes :
        /\ result' = NetworkingRAGPipeline_query(QT_linkedin, <<>>, T_networking_strategy,
                                                 outcome)
        /\ call' = [op   |-> "NetworkingRAGPipeline.query",
                    args |-> << QT_linkedin, <<>>, T_networking_strategy, outcome >>]
    /\ UNCHANGED <<program, documents, knowledge_writes, retrieved_idx, repeat,
                   well_formed_total, threads>>

\* main of simple_rag.py: one call of simple_rag_query(question), then the loop
\* breaks.
SimpleRagQuery ==
    /\ program = "simple_rag"
    /\ call.op = "init"
    /\ \E outcome \in GenerationOutcomes :
        /\ result' = simple_rag_query(QT_linkedin, outcome)
        /\ call' = [op |-> "simple_rag_query", args |-> << QT_linkedin, outcome >>]
    /\ UNCHANGED <<program, documents, knowledge_writes, retrieved_idx, repeat,
                   well_formed_total, threads>>

\* WarmConnectorRAG.query(question)
WarmConnectorQuery ==
    /\ program = "pipeline"
    /\ \E outcome \in RetrievalOutcomes :
        /\ result' = WarmConnectorRAG_query(QT_linkedin, outcome)
        /\ call' = [op |-> "WarmConnectorRAG.query", args |-> << QT_linkedin, outcome >>]
    /\ UNCHANGED <<program, documents, knowledge_writes, retrieved_idx, repeat,
                   well_formed_total, threads>>

\* POST /query of haystack_api.py, once the startup event has built the pipeline.
QueryRag ==
    /\ program = "haystack_api"
    /\ \E outcome \in RetrievalOutcomes :
        /\ result' = query_rag(QT_linkedin, outcome)
        /\ call' = [op |-> "query_rag", args |-> << QT_linkedin, outcome >>]
    /\ UNCHANGED <<program, documents, knowledge_writes, retrieved_idx, repeat,
                   well_formed_total, threads>>

\* One invocation of the stdin worker: python simpleHaystackRAG.py < stdin.
WorkerMain ==
    /\ program = "simpleHaystackRAG_main"
    /\ \E stdin \in WorkerInputs :
        /\ result' = main(documents, stdin)
        /\ documents' = StoreAtExit(documents, stdin)
        /\ call' = [op |-> "main", args |-> << stdin >>]
    /\ UNCHANGED <<program, knowledge_writes, retrieved_idx, repeat, well_formed_total,
                   threads>>

Next ==
    \/ AddDocuments
    \/ Query
    \/ GetStats
    \/ PipelineQuery
    \/ SimpleRagQuery
    \/ WarmConnectorQuery
    \/ QueryRag
    \/ WorkerMain

Spec ==
    Init /\ [][Next]_vars

(***************************************************************************)
(* query and add_documents of one SimpleNetworkingRAG in two threads       *)
(***************************************************************************)
\* The number of documents the store may hold in the interleaved execution.
MaxInterleavedDocs ==
    3

InterleavedBatches ==
    { << LinkedInDoc >>,
      << NullContentDoc >>,
      << LongDoc, LinkedInDoc >>,
      << LinkedInDoc, NotADict, LongDoc >> }

InterleavedQueryInputs ==
    { Str(QT_B_zz), Str(QT_zz_warm_linkedin), None } \X { <<>> } \X { T_networking_strategy }

\* The part of query that follows the call of _find_relevant_documents, whose
\* outcome is relevant_docs.
query_after_scan(relevant_docs, writes, question, context, query_type) ==
    LET table == KnowledgeTable(writes)
        relevant_knowledge ==
            DictGet(table, query_type, table[K_networking_strategies])
        top == Top(relevant_docs.value)
    IN  IF relevant_docs.raised
        THEN QueryFailure(relevant_docs.error)
        ELSE [success             |-> TRUE,
              answer              |-> Answer(writes, question.val, context, query_type,
                                             relevant_knowledge),
              confidence          |-> 85,
              sources             |-> << SourcePre \o query_type >>,
              insights            |-> _extract_insights(question, query_type,
                                                        relevant_knowledge),
              retrieved_documents |-> [i \in 1..Len(top) |-> Plain(top[i])]]

\* AppendedOne of a loop that puts the new dict in front: self.documents.insert(0, ...).
InsertedFirst(store, doc) ==
    << StoredDoc(doc) >> \o store

\* self.documents after one round of the loop of add_documents: the dict is
\* built from the two .get calls and then appended, in one list operation.
AppendedOne(store, doc) ==
    Append(store, StoredDoc(doc))

InitInterleaved ==
    /\ program = "simpleHaystackRAG"
    /\ documents = <<>>
    /\ knowledge_writes = <<>>
    /\ call = [op |-> "init", args |-> <<>>]
    /\ result = NoResult
    /\ retrieved_idx = <<>>
    /\ repeat = FALSE
    /\ well_formed_total = 0
    /\ scan = Idle
    /\ writer = Idle

\* The query thread enters query: the table lookup, then question.lower().split()
\* in _find_relevant_documents, which raises when the question is no str.  In
\* scan, i is the position of the list iterator, relevant the local list, read
\* the documents the iterator has handed out, and lens the lengths the store
\* has had since the call began.
QueryBegin ==
    /\ scan.pc # "scanning"
    /\ \E in \in InterleavedQueryInputs :
        /\ call' = [op |-> "query", args |-> in]
        /\ IF IsStr(in[1])
           THEN /\ scan' = [pc       |-> "scanning",
                            i        |-> 1,
                            relevant |-> <<>>,
                            read     |-> <<>>,
                            lens     |-> { Len(documents) }]
                /\ result' = NoResult
           ELSE /\ scan' = [pc |-> "done", read |-> <<>>, lens |-> { Len(documents) }]
                /\ result' = query_after_scan(Raise(ErrNoLower), knowledge_writes,
                                              in[1], in[2], in[3])
    /\ retrieved_idx' = <<>>
    /\ UNCHANGED <<program, documents, knowledge_writes, repeat, well_formed_total, writer>>

\* One round of `for doc in self.documents`: the iterator hands out the element
\* at its position, and the body scores it; doc['content'].lower() raises when
\* the content is no str, which ends the query in its except branch.
ScanNext ==
    /\ scan.pc = "scanning"
    /\ scan.i <= Len(documents)
    /\ LET doc == documents[scan.i]
           e == Entry(documents, call.args[1].val, scan.i)
       IN  IF IsStr(doc.content)
           THEN /\ scan' = [scan EXCEPT !.i = @ + 1,
                                        !.read = Append(@, doc),
                                        !.relevant = IF Relevant(e) THEN Append(@, e) ELSE @]
                /\ UNCHANGED result
           ELSE /\ scan' = [pc   |-> "done",
                            read |-> Append(scan.read, doc),
                            lens |-> scan.lens]
                /\ result' = query_after_scan(Raise(ErrNoLower), knowledge_writes,
                                              call.args[1], call.args[2], call.args[3])
    /\ UNCHANGED <<program, documents, knowledge_writes, call, retrieved_idx, repeat,
                   well_formed_total, writer>>

\* The iterator finds its position past the end of the list: the loop ends,
\* the list is sorted, and query builds its result.
ScanEnd ==
    /\ scan.pc = "scanning"
    /\ scan.i > Len(documents)
    /\ LET ranked == SortedByScoreDesc(scan.relevant)
           top == Top(ranked)
       IN  /\ result' = query_after_scan(Return(ranked), knowledge_writes,
                                         call.args[1], call.args[2], call.args[3])
           /\ retrieved_idx' = [k \in 1..Len(top) |-> top[k].idx]
    /\ scan' = [pc |-> "done", read |-> scan.read, lens |-> scan.lens]
    /\ UNCHANGED <<program, documents, knowledge_writes, call, repeat, well_formed_total,
                   writer>>

\* The other thread enters add_documents(docs).
AddBegin ==
    /\ writer.pc = "idle"
    /\ \E docs \in InterleavedBatches :
        /\ Len(documents) + Len(docs) <= MaxInterleavedDocs
        /\ writer' = [pc |-> "appending", docs |-> docs, k |-> 1]
        /\ well_formed_total' = WellFormedTotalAfterAdd(well_formed_total, docs)
    /\ UNCHANGED <<program, documents, knowledge_writes, call, result, retrieved_idx,
                   repeat, scan>>

\* One round of the loop of add_documents; doc.get raises on an element that
\* is no mapping, and the call returns from its except branch.
AppendNext ==
    /\ writer.pc = "appending"
    /\ writer.k <= Len(writer.docs)
    /\ IF IsDict(writer.docs[writer.k])
       THEN /\ documents' = AppendedOne(documents, writer.docs[writer.k])
            /\ writer' = [writer EXCEPT !.k = @ + 1]
            /\ scan' = IF scan.pc = "scanning"
                       THEN [scan EXCEPT !.lens = @ \cup { Len(documents') }]
                       ELSE scan
       ELSE /\ writer' = [pc       |-> "idle",
                          returned |-> [success |-> FALSE,
                                        error   |-> ErrNoGet,
                                        count   |-> 0]]
            /\ UNCHANGED <<documents, scan>>
    /\ UNCHANGED <<program, knowledge_writes, call, result, retrieved_idx, repeat,
                   well_formed_total>>

\* The loop of add_documents is through: the call returns its counts.
AddReturn ==
    /\ writer.pc = "appending"
    /\ writer.k > Len(writer.docs)
    /\ writer' = [pc       |-> "idle",
                  returned |-> [success         |-> TRUE,
                                count           |-> Len(writer.docs),
                                total_documents |-> Len(documents)]]
    /\ UNCHANGED <<program, documents, knowledge_writes, call, result, retrieved_idx,
                   repeat, well_formed_total, scan>>

NextInterleaved ==
    \/ QueryBegin
    \/ ScanNext
    \/ ScanEnd
    \/ AddBegin
    \/ AppendNext
    \/ AddReturn

SpecInterleaved ==
    InitInterleaved /\ [][NextInterleaved]_vars

(***************************************************************************)
(* Properties                                                              *)
(***************************************************************************)
\* The state follows a call of SimpleNetworkingRAG.query.
IsQueryCall ==
    program = "simpleHaystackRAG" /\ call.op = "query"

\* The arguments of that call.
Question ==
    call.args[1]

Context ==
    call.args[2]

Category ==
    call.args[3]

\* The tokens of each question text tried, computed once.
TokensOf ==
    [q \in QuestionTexts |-> Split(Lower(q))] @@ <<>>

\* The tokens of the question of that call.
Tokens ==
    TokensOf[Question.val]

\* The tokens of all question texts tried.
AllTokens ==
    UNION { { TokensOf[q][k] : k \in 1..Len(TokensOf[q]) } : q \in QuestionTexts }

\* Whether a token occurs in a content, lower-cased, computed once.
OccursMemo ==
    [p \in AllTokens \X ContentTexts |-> Contains(p[1], Lower(p[2]))] @@ <<>>

\* Every stored document has a str content.
AllContentsStr ==
    \A i \in 1..Len(documents) : IsStr(documents[i].content)

\* Token t occurs in the content of the stored document i.
OccursIn(t, i) ==
    IsStr(documents[i].content) /\ OccursMemo[<< t, documents[i].content.val >>]

NoDuplicates(s) ==
    \A i, j \in 1..Len(s) : i # j => s[i] # s[j]

RecognizedTags ==
    { T_networking_strategy, T_introduction_advice, K_industry_insights,
      K_connection_analysis }

\* C1: a query on a store without documents, or with a question that has no
\* tokens, returns success = true, retrieved_documents = [] and a non-empty answer,
\* for every context and category.
C1_NoDocumentsOrNoTokens ==
    (IsQueryCall /\ IsStr(Question) /\ (documents = <<>> \/ Tokens = <<>>))
        => /\ result.success
           /\ result.retrieved_documents = <<>>
           /\ Len(result.answer) > 0

\* C2, as claimed, for the queries that succeed: a document that holds a token of
\* the question which no other stored document holds is the first entry of
\* retrieved_documents, with a score of at least 1.
C2_UniqueTokenRanksFirst ==
    (IsQueryCall /\ result.success)
        => \A i \in 1..Len(documents) :
               (\E k \in 1..Len(Tokens) :
                    /\ OccursIn(Tokens[k], i)
                    /\ \A j \in 1..Len(documents) : j # i => ~OccursIn(Tokens[k], j))
               => /\ retrieved_idx # <<>>
                  /\ retrieved_idx[1] = i
                  /\ result.retrieved_documents[1].relevance_score >= 1

\* C2, amended: in a query that succeeds, a document that holds a token of the
\* question, while no token of the question occurs in any other stored document,
\* is the first (and only) entry of retrieved_documents, with a score of at
\* least 1.
C2_ExclusiveTokensRankFirst ==
    (IsQueryCall /\ result.success)
        => \A i \in 1..Len(documents) :
               (/\ \E k \in 1..Len(Tokens) : OccursIn(Tokens[k], i)
                /\ \A k \in 1..Len(Tokens) :
                       \A j \in 1..Len(documents) : j # i => ~OccursIn(Tokens[k], j))
               => /\ retrieved_idx = << i >>
                  /\ result.retrieved_documents[1].relevance_score >= 1

\* A successful query whose only token occurs in the second of two stored
\* documents with text, and not in the first.
C2_Witness ==
    /\ IsQueryCall
    /\ result.success
    /\ Len(documents) >= 2
    /\ Len(documents[1].content.val) > 0
    /\ Len(Tokens) = 1
    /\ OccursIn(Tokens[1], 2)
    /\ \A j \in 1..Len(documents) : j # 2 => ~OccursIn(Tokens[1], j)
    /\ retrieved_idx = << 2 >>

\* C3: two retrieved documents of equal relevance_score appear in the order in
\* which they were added, and a document that the cut to three leaves out was
\* added after every listed document of its score; this holds after every call,
\* a repeated one included.
C3_TiesKeepInsertionOrder ==
    (IsQueryCall /\ result.success)
        => /\ \A a, b \in 1..Len(retrieved_idx) :
                  (/\ a < b
                   /\ result.retrieved_documents[a].relevance_score
                          = result.retrieved_documents[b].relevance_score)
                  => retrieved_idx[a] < retrieved_idx[b]
           /\ \A a \in 1..Len(retrieved_idx) :
                  \A i \in 1..Len(documents) :
                      (/\ \A b \in 1..Len(retrieved_idx) : retrieved_idx[b] # i
                       /\ result.retrieved_documents[a].relevance_score
                              = Cardinality({ t \in 1..Len(Tokens) :
                                                  OccursIn(Tokens[t], i) }))
                      => retrieved_idx[a] < i

\* A repeated successful query that retrieved two different documents of equal
\* score.
C3_Witness ==
    /\ IsQueryCall
    /\ repeat
    /\ result.success
    /\ \E a, b \in 1..Len(retrieved_idx) :
           /\ a < b
           /\ result.retrieved_documents[a].relevance_score
                  = result.retrieved_documents[b].relevance_score
           /\ documents[retrieved_idx[a]] # documents[retrieved_idx[b]]

\* C4: a successful query returns at most 3 documents, each with a score of at
\* least 1, in non-increasing order of score; no stored document left out scores
\* more than a listed one, and documents with a positive score are left out only
\* when 3 are listed.
C4_TopThreeOfPositiveScores ==
    (IsQueryCall /\ result.success)
        => LET docs == result.retrieved_documents
               listed == { retrieved_idx[k] : k \in 1..Len(retrieved_idx) }
               left == (1..Len(documents)) \ listed
           IN  /\ Len(docs) <= 3
               /\ Len(retrieved_idx) = Len(docs)
               /\ \A k \in 1..Len(docs) : docs[k].relevance_score >= 1
               /\ \A k \in 1..(Len(docs) - 1) :
                      docs[k].relevance_score >= docs[k + 1].relevance_score
               /\ \A k \in 1..Len(docs) :
                      docs[k].relevance_score
                          = Cardinality({ t \in 1..Len(Tokens) :
                                              OccursIn(Tokens[t], retrieved_idx[k]) })
               /\ \A i \in left : \A k \in 1..Len(docs) :
                      Cardinality({ t \in 1..Len(Tokens) : OccursIn(Tokens[t], i) })
                          <= docs[k].relevance_score
               /\ \A i \in left :
                      (\E t \in 1..Len(Tokens) : OccursIn(Tokens[t], i)) => Len(docs) = 3

\* A successful query on a store where four documents have a positive score, of
\* which three of unequal scores are listed.
C4_Witness ==
    /\ IsQueryCall
    /\ result.success
    /\ Len(result.retrieved_documents) = 3
    /\ Cardinality({ i \in 1..Len(documents) :
                         \E t \in 1..Len(Tokens) : OccursIn(Tokens[t], i) }) >= 4
    /\ result.retrieved_documents[1].relevance_score
           > result.retrieved_documents[3].relevance_score

\* C5: in every result, insights has at most 5 entries and sources at most 3,
\* and neither holds the same string twice.
C5_InsightsAndSourcesBounded ==
    /\ "insights" \in DOMAIN result
           => Len(result.insights) <= 5 /\ NoDuplicates(result.insights)
    /\ "sources" \in DOMAIN result
           => Len(result.sources) <= 3 /\ NoDuplicates(result.sources)

\* A reply in which more than five triggers occur, answered with five insights.
C5_Witness ==
    /\ program = "haystack_rag_pipeline"
    /\ call.op = "NetworkingRAGPipeline.query"
    /\ ~call.args[4].raised
    /\ Len(AppendedInsights(call.args[4].value)) > 5
    /\ Len(result.insights) = 5
    /\ Len(result.sources) = 1

\* C6: a call of query with the arguments of the call before it, nothing
\* between the two, returns what that call returned, the retrieved documents being
\* the same stored documents in the same order, and leaves the store as it is.
C6_RepeatedQuerySameResult ==
    [][(/\ program = "simpleHaystackRAG"
        /\ call.op = "query"
        /\ call'.op = "query"
        /\ call'.args = call.args)
       => /\ result' = result
          /\ retrieved_idx' = retrieved_idx
          /\ documents' = documents]_vars

\* A repeated query that retrieved two documents or more.
C6_Witness ==
    /\ IsQueryCall
    /\ repeat
    /\ result.success
    /\ Len(result.retrieved_documents) >= 2

\* The message of the exception that the call caught, when it caught one.
CaughtError ==
    IF IsQueryCall
    THEN IF ~IsStr(Question) \/ ~AllContentsStr THEN << ErrNoLower >> ELSE <<>>
    ELSE IF call.op \in { "NetworkingRAGPipeline.query", "simple_rag_query",
                          "WarmConnectorRAG.query" }
    THEN IF call.args[Len(call.args)].raised
         THEN << call.args[Len(call.args)].error >>
         ELSE <<>>
    ELSE <<>>

\* C7: a failure inside a query entry point yields a result with success = false,
\* a non-empty answer, confidence = 0.0 and the message in error.
C7_FailureResultWellFormed ==
    CaughtError # <<>>
        => /\ { "success", "answer", "confidence", "error" } \subseteq DOMAIN result
           /\ result.success = FALSE
           /\ Len(result.answer) > 0
           /\ result.confidence = 0
           /\ result.error = CaughtError[1]

C9_FintechGetsFinanceStatement ==
    (IsQueryCall /\ result.success
     /\ call.args = << Str(QT_fintech), <<>>, K_industry_insights >>)
        => Contains(II2, result.answer)

\* C10: on a store that holds the LinkedIn document alone, the query "How do I
\* get a warm introduction on LinkedIn?" with the default category retrieves that
\* document with a score of at least 2, and one of its insights is about warm
\* introductions.
C10_LinkedInScenario ==
    (/\ IsQueryCall
     /\ documents = << StoredDoc(LinkedInDoc) >>
     /\ call.args = << Str(QT_linkedin), <<>>, T_networking_strategy >>)
        => /\ result.success
           /\ \E k \in 1..Len(result.retrieved_documents) :
                  /\ result.retrieved_documents[k].content = LinkedInText
                  /\ result.retrieved_documents[k].meta = {<< "source", "test" >>}
                  /\ result.retrieved_documents[k].relevance_score >= 2
           /\ \E m \in 1..Len(result.insights) :
                  Contains(TR_warm_introduction, Lower(result.insights[m]))

\* The scenario's query, answered on the scenario's store.
C10_Witness ==
    /\ IsQueryCall
    /\ documents = << StoredDoc(LinkedInDoc) >>
    /\ call.args = << Str(QT_linkedin), <<>>, T_networking_strategy >>
    /\ result.success
    /\ Len(result.retrieved_documents) = 1

\* The calls that are query entry points.
QueryOps ==
    { "query", "NetworkingRAGPipeline.query", "simple_rag_query",
      "WarmConnectorRAG.query", "query_rag" }

\* The fields of the QueryResult schema.
QueryResultFields ==
    { "answer", "confidence", "sources", "insights", "retrieved_documents",
      "success", "error" }

\* C11: every result a query entry point returns, on the success path and on the
\* failure path, carries the seven fields answer, confidence, sources, insights,
\* retrieved_documents, success and error.
C11_ResultCarriesSevenFields ==
    call.op \in QueryOps => QueryResultFields \subseteq DOMAIN result

\* C12: the stored sequence is append-only.  In every step of one
\* SimpleNetworkingRAG the sequence held before is a prefix of the sequence held
\* after, so no call removes, reorders or rewrites a stored document; and a call
\* of add_documents that succeeds leaves the old sequence followed by one entry
\* per document of the batch, in the order of the batch, with the document's
\* content and meta.
C12_AppendOnly ==
    [][program = "simpleHaystackRAG"
       => /\ Len(documents') >= Len(documents)
          /\ SubSeq(documents', 1, Len(documents)) = documents
          /\ (call'.op = "add_documents" /\ result'.success)
                 => LET docs == call'.args[1]
                    IN  /\ Len(documents') = Len(documents) + Len(docs)
                        /\ \A i \in 1..Len(docs) :
                               /\ "content" \in DOMAIN docs[i].val
                                      => documents'[Len(documents) + i].content
                                             = docs[i].val.content
                               /\ "meta" \in DOMAIN docs[i].val
                                      => documents'[Len(documents) + i].meta
                                             = docs[i].val.meta
          /\ call'.op # "add_documents" => documents' = documents]_vars

\* A batch of two different documents was added to a store that held documents
\* already, and the store now ends with the two, in the order of the batch.
C12_Witness ==
    /\ program = "simpleHaystackRAG"
    /\ call.op = "add_documents"
    /\ result.success
    /\ Len(call.args[1]) = 2
    /\ call.args[1][1] # call.args[1][2]
    /\ Len(documents) > 2
    /\ documents[Len(documents) - 1].content = call.args[1][1].val.content
    /\ documents[Len(documents)].content = call.args[1][2].val.content

\* C13: as long as every document added was well-formed, each call of
\* add_documents succeeds and returns count = the length of its batch and
\* total_documents = the sum of the lengths of all batches so far, and get_stats
\* reports that same total; knowledge_categories is 4 in every get_stats result.
C13_CountsAddUp ==
    program = "simpleHaystackRAG"
        => /\ (call.op = "add_documents" /\ well_formed_total >= 0)
                  => /\ result.success
                     /\ result.count = Len(call.args[1])
                     /\ result.total_documents = well_formed_total
           /\ call.op = "get_stats"
                  => /\ result.knowledge_categories = 4
                     /\ well_formed_total >= 0
                            => result.total_documents = well_formed_total
           /\ well_formed_total >= 0 => Len(documents) = well_formed_total

\* get_stats after two or more batches of well-formed documents, three documents
\* or more in all.
C13_Witness ==
    /\ program = "simpleHaystackRAG"
    /\ call.op = "get_stats"
    /\ well_formed_total >= 3
    /\ result.total_documents = well_formed_total

\* C14: a batch of mappings of which one has no content field is not rejected:
\* add_documents returns success = true, counts the document in count and
\* total_documents, and stores it with content "" (a missing meta as the empty
\* mapping).  A stored document of content "" has score 0 for every question and
\* is never among the retrieved documents.
C14_MissingContentCoerced ==
    program = "simpleHaystackRAG"
        => /\ (/\ call.op = "add_documents"
               /\ \A i \in 1..Len(call.args[1]) : IsDict(call.args[1][i]))
                  => LET docs == call.args[1]
                         base == Len(documents) - Len(docs)
                     IN  /\ result.success
                         /\ result.count = Len(docs)
                         /\ result.total_documents = Len(documents)
                         /\ base >= 0
                         /\ \A i \in 1..Len(docs) :
                                /\ "content" \notin DOMAIN docs[i].val
                                       => documents[base + i].content = Str(<<>>)
                                /\ "meta" \notin DOMAIN docs[i].val
                                       => documents[base + i].meta = EmptyMeta
           /\ call.op = "query"
                  => /\ IsStr(Question) => Score(Question.val, <<>>) = 0
                     /\ \A k \in 1..Len(retrieved_idx) :
                            documents[retrieved_idx[k]].content # Str(<<>>)
                     /\ (result.success /\ \A i \in 1..Len(documents) :
                                               documents[i].content = Str(<<>>))
                            => result.retrieved_documents = <<>>

\* A successful query with tokens retrieved a document that was added after a
\* document without content, which is still in the store with content "".
C14_Witness ==
    /\ IsQueryCall
    /\ result.success
    /\ retrieved_idx # <<>>
    /\ \E i \in 1..Len(documents) :
           /\ documents[i] = [content |-> Str(<<>>), meta |-> EmptyMeta]
           /\ i < retrieved_idx[1]

\* C15: in a successful query the relevance_score of each retrieved document is
\* the number of distinct tokens of the question that occur in the document's
\* lower-cased full content: a token the question repeats counts once, and the
\* context adds nothing.
C15_ScoreCountsDistinctTokens ==
    (IsQueryCall /\ result.success)
        => \A k \in 1..Len(retrieved_idx) :
               result.retrieved_documents[k].relevance_score
                   = Cardinality({ t \in { Tokens[p] : p \in 1..Len(Tokens) } :
                                       OccursIn(t, retrieved_idx[k]) })

\* The statements the knowledge table holds for the category of each tag.
OwnStatements ==
    (T_networking_strategy :> knowledge_base[K_networking_strategies])
    @@ (T_introduction_advice :> knowledge_base[K_introduction_techniques])
    @@ (K_industry_insights :> knowledge_base[K_industry_insights])
    @@ (K_connection_analysis :> knowledge_base[K_connection_analysis])

\* C16: a successful query with one of the four recognized tags is answered from
\* the statements of that tag's own category; for "introduction_advice" the
\* answer is the introduction framing around statements #1 and #2 of the
\* introduction category.
C16_AnswerFromOwnCategory ==
    (IsQueryCall /\ result.success /\ Category \in RecognizedTags)
        => /\ result.answer
                  = _generate_answer(Question.val, Context, Category,
                                     OwnStatements[Category])
           /\ Category = T_introduction_advice
                  => result.answer
                         = AnsIntroPre \o IT1 \o << " " >> \o IT2 \o AnsIntroPost

\* C17: a successful query with the category "industry_insights" detects the
\* first keyword of the list technology, finance, healthcare, consulting, tech,
\* fintech, in list order, that occurs in the lower-cased question and context,
\* and "general" when none occurs; the answer is the industry framing around the
\* first industry statement that holds the detected keyword, case ignored, and
\* around statement #1 when no statement holds it, as is the case for "general".
C17_IndustryDetectionAndStatement ==
    (IsQueryCall /\ result.success /\ Category = K_industry_insights)
        => LET text == Lower(Question.val \o << " " >> \o Context)
               keywords == << W_technology, W_finance, W_healthcare, W_consulting,
                              W_tech, W_fintech >>
               statements == << II1, II2, II3, II4 >>
               hits == { i \in 1..Len(keywords) : Contains(keywords[i], text) }
               detected == IF hits = {}
                           THEN W_general
                           ELSE keywords[CHOOSE i \in hits : \A j \in hits : i <= j]
               holding == { j \in 1..Len(statements) :
                                Contains(detected, Lower(statements[j])) }
               chosen == IF holding = {}
                         THEN statements[1]
                         ELSE statements[CHOOSE j \in holding : \A m \in holding : j <= m]
           IN  /\ result.answer = AnsIndustryPre \o chosen \o AnsIndustryPost
               /\ detected = W_general => holding = {}

\* A successful industry query whose question holds "fintech" (and so "tech")
\* and whose context holds "finance", answered with the finance statement, which
\* is not statement #1.
C17_Witness ==
    /\ IsQueryCall
    /\ result.success
    /\ Category = K_industry_insights
    /\ Contains(W_fintech, Lower(Question.val))
    /\ Contains(W_finance, Lower(Context))
    /\ result.answer = AnsIndustryPre \o II2 \o AnsIndustryPost

\* C18: each entry of retrieved_documents shows the stored content as it is when
\* that has at most 200 characters, and otherwise its first 200 characters
\* followed by "..."; the store still holds the full content after the query, and
\* the entry's score counts the tokens that occur anywhere in the full content.
\* The first conjunct puts the cut at the boundary: a content of exactly 200
\* characters is displayed whole, one of 201 is shortened.
C18_DisplayTruncatedScoreOnFull ==
    /\ call.op = "init"
           => /\ Display(SubSeq(LongText, 1, 200)) = SubSeq(LongText, 1, 200)
              /\ Display(SubSeq(LongText, 1, 201))
                     = SubSeq(LongText, 1, 200) \o << ".", ".", "." >>
    /\ (IsQueryCall /\ result.success)
        => \A k \in 1..Len(retrieved_idx) :
               LET full == documents[retrieved_idx[k]].content.val
                   entry == result.retrieved_documents[k]
               IN  /\ Len(full) <= 200 => entry.content = full
                   /\ Len(full) > 200
                          => /\ Len(entry.content) = 203
                             /\ SubSeq(entry.content, 1, 200) = SubSeq(full, 1, 200)
                             /\ SubSeq(entry.content, 201, 203) = << ".", ".", "." >>
                   /\ entry.relevance_score
                          = Cardinality({ t \in 1..Len(Tokens) :
                                              OccursIn(Tokens[t], retrieved_idx[k]) })

\* A successful query retrieved a stored document of more than 200 characters,
\* shown shortened, with a score of 2 of which one token occurs in the full
\* content only after character 200.
C18_Witness ==
    /\ IsQueryCall
    /\ result.success
    /\ \E k \in 1..Len(retrieved_idx) :
           LET full == documents[retrieved_idx[k]].content.val
           IN  /\ Len(full) > 200
               /\ result.retrieved_documents[k].content # full
               /\ result.retrieved_documents[k].relevance_score = 2
               /\ \E t \in 1..Len(Tokens) :
                      /\ Contains(Tokens[t], Lower(full))
                      /\ ~Contains(Tokens[t], Lower(SubSeq(full, 1, 200)))

\* C19: every successful result of SimpleNetworkingRAG.query has confidence
\* 0.85, whatever the question, context, category, store and number of retrieved
\* documents; a result with another confidence comes from the failure path.
C19_ConfidenceFixed ==
    IsQueryCall
        => /\ result.success => result.confidence = 85
           /\ result.confidence # 85 => (~result.success /\ CaughtError # <<>>)

\* A successful query on a store with documents that retrieved nothing, with a
\* context and a category that is no tag, and confidence 0.85.
C19_Witness ==
    /\ IsQueryCall
    /\ result.success
    /\ documents # <<>>
    /\ result.retrieved_documents = <<>>
    /\ Context # <<>>
    /\ Category = T_bogus
    /\ result.confidence = 85

\* C20: a step of query or get_stats, successful or failed, leaves the stored
\* document sequence and the category knowledge table as they were; a step that
\* changes the document sequence is a step of add_documents; and the table is
\* in every state the table built at construction.
C20_QueryAndStatsReadOnly ==
    [][program = "simpleHaystackRAG"
       => /\ call'.op \in { "query", "get_stats" }
                 => /\ documents' = documents
                    /\ knowledge_writes' = knowledge_writes
                    /\ KnowledgeTable(knowledge_writes') = knowledge_base
          /\ documents' # documents => call'.op = "add_documents"
          /\ knowledge_writes' = <<>>]_vars

\* A query failed on a store that holds a document of content None next to other
\* documents, after an unknown category was queried.
C20_Witness ==
    /\ IsQueryCall
    /\ ~result.success
    /\ Len(documents) >= 2
    /\ \E i \in 1..Len(documents) : ~IsStr(documents[i].content)
    /\ \E i \in 1..Len(documents) : documents[i].content = Str(LongText)
    /\ Category = T_bogus
    /\ knowledge_writes = <<>>

\* The triggers in list order, each with the spellings that count for it, and the
\* insight of each.
TriggerList ==
    << { TR_warm_introduction }, { TR_mutual }, { TR_value },
       { TR_follow_up, TR_follow_hyphen_up }, { TR_authentic }, { TR_industry },
       { TR_timing } >>

TriggerInsights ==
    << PI_warm, PI_mutual, PI_value, PI_follow, PI_authentic, PI_industry, PI_timing >>

\* The triggers that occur in the lower-cased reply of the pipeline's call.
Matched ==
    { i \in 1..Len(TriggerList) :
          \E t \in TriggerList[i] : Contains(t, Lower(call.args[4].value)) }

\* C21: the insights of a generated reply are the insights of the first five
\* triggers, in list order, that occur in the lower-cased reply: as many entries as
\* triggers occur, five at most; entry k is the insight of the k-th occurring
\* trigger; "follow up" and "follow-up" together give one entry; and the insights
\* of "industry" and "timing" are missing when five triggers before them occur.
C21_FirstFiveInTriggerOrder ==
    (/\ program = "haystack_rag_pipeline"
     /\ call.op = "NetworkingRAGPipeline.query"
     /\ ~call.args[4].raised)
        => LET matched == Matched
               n == Cardinality(matched)
           IN  /\ Len(result.insights) = IF n < 5 THEN n ELSE 5
               /\ \A k \in 1..Len(result.insights) :
                      \E i \in matched :
                          /\ Cardinality({ j \in matched : j < i }) = k - 1
                          /\ result.insights[k] = TriggerInsights[i]
               /\ NoDuplicates(result.insights)
               /\ (1..5) \subseteq matched
                      => \A k \in 1..Len(result.insights) :
                             result.insights[k] \notin { PI_industry, PI_timing }

\* A reply in which all seven triggers occur, "follow up" and "follow-up" both
\* and some in capitals, answered with the insights of the first five triggers.
C21_Witness ==
    /\ program = "haystack_rag_pipeline"
    /\ call.op = "NetworkingRAGPipeline.query"
    /\ ~call.args[4].raised
    /\ Matched = 1..7
    /\ Contains(TR_follow_up, Lower(call.args[4].value))
    /\ Contains(TR_follow_hyphen_up, Lower(call.args[4].value))
    /\ ~Contains(TR_warm_introduction, call.args[4].value)
    /\ result.insights = << PI_warm, PI_mutual, PI_value, PI_follow, PI_authentic >>

\* C22: with add_documents running append by append next to a query, the result
\* of the query is the result of a query on a prefix of the store that was the
\* whole store at an instant between the query's start and its end, with the same
\* documents retrieved in the same order; the query fails only when the question
\* or a stored content is no str; and the documents the scan was handed are the
\* first documents of the store, in order, none skipped, each with its content
\* and its meta.
C22_ScanSeesAPrefix ==
    /\ scan.pc \in { "scanning", "done" }
           => /\ Len(scan.read) <= Len(documents)
              /\ scan.read = SubSeq(documents, 1, Len(scan.read))
              /\ \A k \in 1..Len(scan.read) : DOMAIN scan.read[k] = { "content", "meta" }
    /\ scan.pc = "done"
           => /\ \E n \in scan.lens :
                     /\ n <= Len(documents)
                     /\ result = query(SubSeq(documents, 1, n), knowledge_writes,
                                       call.args[1], call.args[2], call.args[3])
                     /\ retrieved_idx = RetrievedIdx(SubSeq(documents, 1, n),
                                                     call.args[1], call.args[2])
              /\ ~result.success
                     => \/ ~IsStr(call.args[1])
                        \/ \E i \in 1..Len(documents) : ~IsStr(documents[i].content)

\* A query that ran while a batch of two was being added: it ended successfully
\* between the two appends, the store had two lengths or more during the scan,
\* and it retrieved a document that was appended after it had begun.
C22_Witness ==
    /\ scan.pc = "done"
    /\ result.success
    /\ Cardinality(scan.lens) >= 2
    /\ \E k \in 1..Len(retrieved_idx) : \E n \in scan.lens : retrieved_idx[k] > n
    /\ writer.pc = "appending"
    /\ writer.k = 2
    /\ Len(writer.docs) >= 2

\* C23: add_documents is not all-or-nothing.  When the batch holds an element
\* that is no mapping, the first such one after k mappings, the call returns
\* success = false, count = 0 and an error message, and the store is the old
\* store followed by the k documents before that element: it has grown by k.
C23_PartialBatchKept ==
    [][(/\ program = "simpleHaystackRAG"
        /\ call'.op = "add_documents"
        /\ \E i \in 1..Len(call'.args[1]) : ~IsDict(call'.args[1][i]))
       => LET docs == call'.args[1]
              bad == CHOOSE i \in 1..Len(docs) :
                         /\ ~IsDict(docs[i])
                         /\ \A j \in 1..(i - 1) : IsDict(docs[j])
              k == bad - 1
          IN  /\ result'.success = FALSE
              /\ result'.count = 0
              /\ Len(result'.error) > 0
              /\ "total_documents" \notin DOMAIN result'
              /\ Len(documents') = Len(documents) + k
              /\ SubSeq(documents', 1, Len(documents)) = documents
              /\ \A i \in 1..k :
                     /\ documents'[Len(documents) + i].content
                            = DictGet(docs[i].val, "content", Str(<<>>))
                     /\ documents'[Len(documents) + i].meta
                            = DictGet(docs[i].val, "meta", EmptyMeta)]_vars

\* A batch whose second element is no mapping was added to a store that held a
\* document: the call reported failure and count 0, and the batch's first
\* document is the last of the store.
C23_Witness ==
    /\ program = "simpleHaystackRAG"
    /\ call.op = "add_documents"
    /\ Len(call.args[1]) = 3
    /\ IsDict(call.args[1][1])
    /\ ~IsDict(call.args[1][2])
    /\ ~result.success
    /\ result.count = 0
    /\ Len(documents) >= 2
    /\ documents[Len(documents)] = StoredDoc(call.args[1][1])

\* ---------------------------------------------------------------------------
\* C24  The stdin worker builds a new, empty SimpleNetworkingRAG on every
\* invocation and handles one action.  As stated: whatever was invoked before,
\* a "query" action returns retrieved_documents = [], a "stats" action reports
\* total_documents = 0, and an action other than query, add_documents and
\* stats yields success = false with an "Unknown action" error.
\* ---------------------------------------------------------------------------
WorkerActions ==
    { Str(A_query), Str(A_add_documents), Str(A_stats) }

C24_WorkerAlwaysStartsEmpty ==
    (program = "simpleHaystackRAG_main" /\ call.op = "main" /\ IsDict(call.args[1]))
        => LET action == WorkerAction(call.args[1])
           IN  /\ action = Str(A_query)
                      => /\ "retrieved_documents" \in DOMAIN result
                         /\ result.retrieved_documents = <<>>
               /\ action = Str(A_stats)
                      => result.total_documents = 0
               /\ action \notin WorkerActions
                      => /\ ~result.success
                         /\ Prefix(result.error, Len(UnknownActionPre)) = UnknownActionPre

\* C24, the part that holds: no invocation sees a document of an earlier one.
\* A "query" action that succeeds returns retrieved_documents = []; one that
\* fails prints a dict without the key retrieved_documents; "stats" reports
\* total_documents = 0; "add_documents" reports the length of its own batch as
\* the total; any other action yields success = false and "Unknown action: "
\* followed by the action.
C24_NoDocumentSurvivesAnInvocation ==
    (program = "simpleHaystackRAG_main" /\ call.op = "main" /\ IsDict(call.args[1]))
        => LET action == WorkerAction(call.args[1])
               data   == WorkerData(call.args[1])
           IN  /\ (action = Str(A_query) /\ result.success)
                      => result.retrieved_documents = <<>>
               /\ (action = Str(A_query) /\ ~result.success)
                      => "retrieved_documents" \notin DOMAIN result
               /\ action = Str(A_stats)
                      => result.total_documents = 0
               /\ (action = Str(A_add_documents) /\ result.success)
                      => result.total_documents = Len(DictGet(data.val, "documents", <<>>))
               /\ action \notin WorkerActions
                      => /\ ~result.success
                         /\ result.error = UnknownActionPre \o Format(action)

====
